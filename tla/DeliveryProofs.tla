---------------------------- MODULE DeliveryProofs ----------------------------
(***************************************************************************)
(* The components that hold blocks and messages back or fetch them, for    *)
(* every value of their constants.  The future block buffer: its two indexes are       *)
(* inverse to one another, no buffered block is overlooked, and it         *)
(* implements causal delivery.  The cross-shard router: no message is lost *)
(* or delivered twice without having been dropped at a cap, and the caps   *)
(* keep the freshest.  Block and snapshot sync: heights stay within the    *)
(* peers' chain, sync_in_flight has a cause until a request fails, and a   *)
(* snapshot that is applied is one peer's.                                 *)
(***************************************************************************)
EXTENDS FutureBlockBuffer, CrossShard, BlockSync, SetLemmas, FunctionTheorems, SequenceTheorems

-----------------------------------------------------------------------------
(* The future block buffer.                                                *)

Elems(s) == {s[i] : i \in 1..Len(s)}

\* The blocks that are in the caller's DAG or on their way there.
Delivered == seen \cup Elems(released)

\* The shape of the state.
BufferShape ==
  /\ DOMAIN pending \subseteq Blocks
  /\ pending \in [DOMAIN pending -> [missing : SUBSET Blocks, inserted_round : Nat]]
  /\ IsFiniteSet(DOMAIN pending) /\ Cardinality(DOMAIN pending) <= cap
  /\ DOMAIN waiting_on \subseteq Blocks
  /\ waiting_on \in [DOMAIN waiting_on -> SUBSET Blocks]
  /\ frontier \in Seq(Blocks) /\ released \in Seq(Blocks)
  /\ seen \subseteq Blocks /\ round \in Nat
  /\ avail = {} \/ \E a \in Blocks : avail = {a}
  /\ waiters \subseteq Blocks

\* The cascade of mark_seen: what it has still to look at is delivered, no
\* block is on the stack twice, and its result is handed over when it ends.
CascadeInv ==
  /\ Elems(frontier) \subseteq Delivered /\ avail \subseteq Delivered
  /\ avail \cap Elems(frontier) = {}
  /\ \A i, j \in 1..Len(frontier) : frontier[i] = frontier[j] => i = j
  /\ Idle => released = <<>>

\* What a buffered block is missing: its parents that were not delivered, or
\* whose delivery mark_seen has not told it yet.
MissingInv ==
  /\ DOMAIN pending \cap Delivered = {}
  /\ \A b \in DOMAIN pending :
       /\ pending[b].missing # {}
       /\ pending[b].missing \subseteq Parents[b]
       /\ \A p \in Parents[b] :
            (p \notin Delivered \/ p \in Elems(frontier)) => p \in pending[b].missing
       /\ \A p \in pending[b].missing :
            p \notin Delivered \/ p \in Elems(frontier) \/ p \in avail

\* The waiters of the popped block are the blocks that still miss it.
WaitersInv ==
  /\ avail = {} => waiters = {}
  /\ avail # {} => \A b \in Blocks :
       b \in waiters <=> (b \in DOMAIN pending /\ avail \subseteq pending[b].missing)

\* The reverse index, without the entry that was taken out for the visit.
IndexInv ==
  /\ \A p \in DOMAIN waiting_on : waiting_on[p] # {}
  /\ \A p, b \in Blocks :
       (p \in DOMAIN waiting_on /\ b \in waiting_on[p])
         <=> (b \in DOMAIN pending /\ p \in pending[b].missing /\ p \notin avail)

BufferInv == BufferShape /\ CascadeInv /\ MissingInv /\ WaitersInv /\ IndexInv

-----------------------------------------------------------------------------
\* The elements of sequences of blocks: frontier and released.
LEMMA ElemsEmpty == Elems(<<>>) = {}
BY DEF Elems

LEMMA ElemsAppend ==
  ASSUME NEW s \in Seq(Blocks), NEW b \in Blocks
  PROVE  Elems(Append(s, b)) = Elems(s) \cup {b}
<1>1. /\ Len(Append(s, b)) = Len(s) + 1 /\ Len(s) \in Nat
      /\ Append(s, b)[Len(s) + 1] = b
      /\ \A i \in 1..Len(s) : Append(s, b)[i] = s[i]
  OBVIOUS
<1>2. 1..(Len(s) + 1) = (1..Len(s)) \cup {Len(s) + 1}
  BY <1>1
<1> QED BY <1>1, <1>2 DEF Elems

\* Popping a stack without duplicates takes its top out of its elements.
LEMMA ElemsPop ==
  ASSUME NEW s \in Seq(Blocks), s # <<>>,
         \A i, j \in 1..Len(s) : s[i] = s[j] => i = j
  PROVE  LET top == s[Len(s)]
             rest == SubSeq(s, 1, Len(s) - 1)
         IN /\ rest \in Seq(Blocks)
            /\ top \in Elems(s) /\ top \in Blocks
            /\ Elems(rest) = Elems(s) \ {top}
            /\ \A i, j \in 1..Len(rest) : rest[i] = rest[j] => i = j
<1> DEFINE top == s[Len(s)]
           rest == SubSeq(s, 1, Len(s) - 1)
<1>1. Len(s) \in Nat /\ Len(s) >= 1
  <2>1. Len(s) \in Nat \ {0}
    BY EmptySeq, Zenon
  <2> QED BY <2>1
<1>2. /\ rest \in Seq(Blocks) /\ Len(rest) = Len(s) - 1
      /\ \A i \in 1..(Len(s) - 1) : rest[i] = s[i]
  <2>1. 1 \in 1..(Len(s) + 1) /\ Len(s) - 1 \in 0..Len(s)
    BY <1>1
  <2>2. /\ rest \in Seq(Blocks)
        /\ Len(rest) = (IF 1 <= Len(s) - 1 THEN (Len(s) - 1) - 1 + 1 ELSE 0)
        /\ \A i \in 1..((Len(s) - 1) - 1 + 1) : rest[i] = s[1 + i - 1]
    BY <1>1, <2>1, SubSeqProperties
  <2> HIDE DEF rest
  <2>3. Len(rest) = Len(s) - 1
    <3>1. CASE 1 <= Len(s) - 1
      <4>1. Len(rest) = (Len(s) - 1) - 1 + 1
        BY <2>2, <3>1, Zenon
      <4> QED BY <1>1, <4>1
    <3>2. CASE ~(1 <= Len(s) - 1)
      <4>1. Len(rest) = 0
        BY <2>2, <3>2, Zenon
      <4>2. \A n \in Nat : n >= 1 /\ ~(1 <= n - 1) => n - 1 = 0
        OBVIOUS
      <4>3. Len(s) - 1 = 0
        BY <1>1, <3>2, <4>2, Zenon
      <4> QED BY <4>1, <4>3, Zenon
    <3> QED BY <3>1, <3>2
  <2>4. ASSUME NEW i \in 1..(Len(s) - 1) PROVE rest[i] = s[i]
    <3>1. i \in 1..((Len(s) - 1) - 1 + 1) /\ 1 + i - 1 = i
      BY <1>1
    <3> QED BY <2>2, <3>1
  <2> QED BY <2>2, <2>3, <2>4
<1>3. 1..Len(s) = (1..(Len(s) - 1)) \cup {Len(s)}
  BY <1>1
<1>4. \A i \in 1..(Len(s) - 1) : s[i] # top
  BY <1>1, <1>3
<1>5. Elems(rest) = {s[i] : i \in 1..(Len(s) - 1)}
  BY <1>2 DEF Elems
<1>6. Elems(s) = {s[i] : i \in 1..(Len(s) - 1)} \cup {top}
  BY <1>3 DEF Elems
<1>7. Elems(rest) = Elems(s) \ {top}
  BY <1>4, <1>5, <1>6
<1>8. \A i, j \in 1..Len(rest) : rest[i] = rest[j] => i = j
  BY <1>1, <1>2, <1>3
<1>9. top \in Blocks
  BY <1>1
<1> QED BY <1>2, <1>6, <1>7, <1>8, <1>9

\* Taking blocks out of the pending map.
LEMMA DropPending ==
  ASSUME BufferShape, NEW S
  PROVE  LET rest == Drop(pending, S) IN
         /\ DOMAIN rest = DOMAIN pending \ S
         /\ \A b \in DOMAIN rest : rest[b] = pending[b]
         /\ rest \in [DOMAIN rest -> [missing : SUBSET Blocks, inserted_round : Nat]]
         /\ IsFiniteSet(DOMAIN rest) /\ Cardinality(DOMAIN rest) <= cap
<1> DEFINE rest == Drop(pending, S)
<1>1. /\ DOMAIN rest = DOMAIN pending \ S
      /\ \A b \in DOMAIN rest : rest[b] = pending[b]
      /\ rest \in [DOMAIN rest -> [missing : SUBSET Blocks, inserted_round : Nat]]
  BY DEF Drop, BufferShape
<1>2. (DOMAIN pending \ S) \in SUBSET DOMAIN pending
  OBVIOUS
<1>3. /\ IsFiniteSet(DOMAIN pending \ S)
      /\ Cardinality(DOMAIN pending \ S) <= Cardinality(DOMAIN pending)
      /\ Cardinality(DOMAIN pending \ S) \in Nat /\ Cardinality(DOMAIN pending) \in Nat
  BY <1>2, FS_Subset, FS_CardinalityType DEF BufferShape
<1>4. Cardinality(DOMAIN pending \ S) <= cap
  BY <1>3, BufferAssumption DEF BufferShape
<1> QED BY <1>1, <1>3, <1>4

-----------------------------------------------------------------------------
\* The empty buffer satisfies the invariant.
LEMMA BufferInitial == BufferInit => BufferInv
<1> SUFFICES ASSUME BufferInit PROVE BufferInv
  OBVIOUS
<1>1. /\ DOMAIN pending = {} /\ DOMAIN waiting_on = {}
      /\ Elems(frontier) = {} /\ Elems(released) = {}
  BY ElemsEmpty DEF BufferInit
<1>2. IsFiniteSet({}) /\ Cardinality({}) = 0
  BY FS_EmptySet
<1>3. BufferShape
  BY <1>1, <1>2, BufferAssumption DEF BufferInit, BufferShape
<1>4. Len(frontier) = 0
  BY DEF BufferInit
<1> QED BY <1>1, <1>3, <1>4
        DEF BufferInit, BufferInv, CascadeInv, MissingInv, WaitersInv, IndexInv, Delivered

\* What the invariant says when no call is under way.
LEMMA IdleState ==
  ASSUME BufferInv, Idle
  PROVE  /\ released = <<>> /\ Delivered = seen /\ Elems(frontier) = {}
         /\ waiters = {} /\ avail = {} /\ frontier = <<>>
BY ElemsEmpty DEF BufferInv, CascadeInv, WaitersInv, Idle, Delivered

\* offer of a block with missing parents delivers nothing.
LEMMA OfferBufferedKeeps ==
  ASSUME BufferInv, NEW b \in Blocks, OfferBuffered(b)
  PROVE  BufferInv' /\ Delivered' = Delivered
<1> USE DEF BufferInv
<1>1. /\ released = <<>> /\ Delivered = seen /\ Elems(frontier) = {}
      /\ waiters = {} /\ avail = {}
  BY IdleState DEF OfferBuffered
<1>2. Delivered' = Delivered /\ Elems(frontier)' = Elems(frontier)
  BY DEF OfferBuffered, Delivered, Elems
<1>3. b \notin DOMAIN pending /\ b \notin seen /\ Missing(b) # {}
      /\ Missing(b) \subseteq Blocks
  BY BufferAssumption DEF OfferBuffered, Duplicate, Missing
<1>4. /\ DOMAIN pending' = DOMAIN pending \cup {b}
      /\ pending'[b] = [missing |-> Missing(b), inserted_round |-> round]
      /\ \A x \in DOMAIN pending : pending'[x] = pending[x]
      /\ pending' \in [DOMAIN pending' -> [missing : SUBSET Blocks, inserted_round : Nat]]
  BY <1>3 DEF OfferBuffered, BufferShape
<1>5. /\ DOMAIN waiting_on' = DOMAIN waiting_on \cup Missing(b)
      /\ \A p \in DOMAIN waiting_on' :
           waiting_on'[p] = (IF p \in DOMAIN waiting_on THEN waiting_on[p] ELSE {})
                              \cup (IF p \in Missing(b) THEN {b} ELSE {})
      /\ waiting_on' \in [DOMAIN waiting_on' -> SUBSET Blocks]
  BY DEF OfferBuffered, Index, BufferShape
<1>6. BufferShape'
  <2>1. IsFiniteSet(DOMAIN pending') /\ Cardinality(DOMAIN pending') <= cap
    <3>1. /\ IsFiniteSet(DOMAIN pending \cup {b})
          /\ Cardinality(DOMAIN pending \cup {b}) = Cardinality(DOMAIN pending) + 1
      BY <1>3, FS_AddElement DEF BufferShape
    <3>2. Cardinality(DOMAIN pending) \in Nat
      BY FS_CardinalityType DEF BufferShape
    <3> QED BY <1>4, <3>1, <3>2, BufferAssumption DEF OfferBuffered
  <2> QED BY <1>3, <1>4, <1>5, <2>1 DEF OfferBuffered, BufferShape
<1>7. CascadeInv'
  BY <1>1, <1>2 DEF OfferBuffered, CascadeInv, Idle
<1>8. MissingInv'
  <2>1. \A p \in Missing(b) : p \in Parents[b] /\ p \notin Delivered
    BY <1>1 DEF Missing
  <2>2. \A p \in Parents[b] : p \notin Delivered => p \in Missing(b)
    BY <1>1 DEF Missing
  <2>3. avail' = avail
    BY DEF OfferBuffered
  <2> QED BY <1>1, <1>2, <1>3, <1>4, <2>1, <2>2, <2>3 DEF MissingInv
<1>9. WaitersInv'
  BY <1>1 DEF OfferBuffered, WaitersInv
<1>10. IndexInv'
  <2>1. avail' = {}
    BY <1>1 DEF OfferBuffered
  <2>2. \A p \in DOMAIN waiting_on' : waiting_on'[p] # {}
    BY <1>5 DEF IndexInv
  <2>3. ASSUME NEW p \in Blocks, NEW x \in Blocks
        PROVE (p \in DOMAIN waiting_on' /\ x \in waiting_on'[p])
                <=> (x \in DOMAIN pending' /\ p \in pending'[x].missing)
    <3>1. (p \in DOMAIN waiting_on /\ x \in waiting_on[p])
            <=> (x \in DOMAIN pending /\ p \in pending[x].missing)
      BY <1>1 DEF IndexInv
    <3>2. CASE x = b
      BY <1>3, <1>4, <1>5, <3>1, <3>2
    <3>3. CASE x # b
      BY <1>3, <1>4, <1>5, <3>1, <3>3
    <3> QED BY <3>2, <3>3
  <2> QED BY <2>1, <2>2, <2>3 DEF IndexInv
<1> QED BY <1>2, <1>6, <1>7, <1>8, <1>9, <1>10

\* offer of a block whose parents are there delivers it, for the first time.
LEMMA OfferReadyKeeps ==
  ASSUME BufferInv, NEW b \in Blocks, OfferReady(b)
  PROVE  /\ BufferInv' /\ Delivered' = Delivered \cup {b}
         /\ b \notin Delivered /\ Parents[b] \subseteq Delivered
<1> USE DEF BufferInv
<1>1. /\ released = <<>> /\ Delivered = seen /\ Elems(frontier) = {}
      /\ waiters = {} /\ avail = {} /\ Elems(released) = {}
  BY IdleState, ElemsEmpty DEF OfferReady
<1>2. /\ frontier' = <<b>> /\ seen' = seen \cup {b}
      /\ UNCHANGED <<pending, waiting_on, avail, waiters, released, round>>
  BY DEF OfferReady
<1>3. Elems(frontier') = {b} /\ Elems(released') = {}
  <2>1. Len(<<b>>) = 1 /\ <<b>>[1] = b
    OBVIOUS
  <2>2. 1..1 = {1}
    OBVIOUS
  <2> QED BY <1>1, <1>2, <2>1, <2>2 DEF Elems
<1>4. Delivered' = Delivered \cup {b}
  BY <1>1, <1>2, <1>3 DEF Delivered
<1>5. b \notin DOMAIN pending /\ b \notin Delivered /\ Parents[b] \subseteq Delivered
  BY <1>1 DEF OfferReady, Duplicate, Missing
<1>6. BufferShape'
  BY <1>2 DEF BufferShape
<1>7. CascadeInv'
  <2>1. Len(frontier') = 1 /\ frontier' # <<>>
    BY <1>2
  <2>2. \A i, j \in 1..Len(frontier') : frontier'[i] = frontier'[j] => i = j
    BY <2>1
  <2> QED BY <1>1, <1>2, <1>3, <1>4, <2>1, <2>2 DEF CascadeInv, Idle
<1>8. MissingInv'
  BY <1>1, <1>2, <1>3, <1>4, <1>5 DEF MissingInv
<1>9. WaitersInv'
  BY <1>1, <1>2 DEF WaitersInv
<1>10. IndexInv'
  BY <1>2 DEF IndexInv
<1> QED BY <1>4, <1>5, <1>6, <1>7, <1>8, <1>9, <1>10

\* Taking a block from the frontier of mark_seen delivers nothing.
LEMMA PopFrontierKeeps ==
  ASSUME BufferInv, PopFrontier
  PROVE  BufferInv' /\ Delivered' = Delivered
<1> USE DEF BufferInv
<1> DEFINE top == frontier[Len(frontier)]
<1>1. /\ frontier # <<>> /\ avail = {} /\ avail' = {top}
      /\ waiters' = (IF top \in DOMAIN waiting_on THEN waiting_on[top] ELSE {})
      /\ waiting_on' = Drop(waiting_on, {top})
      /\ frontier' = SubSeq(frontier, 1, Len(frontier) - 1)
      /\ UNCHANGED <<pending, released, seen, round>>
  BY DEF PopFrontier
<1>2. /\ frontier' \in Seq(Blocks) /\ top \in Elems(frontier) /\ top \in Blocks
      /\ Elems(frontier') = Elems(frontier) \ {top}
      /\ \A i, j \in 1..Len(frontier') : frontier'[i] = frontier'[j] => i = j
  BY <1>1, ElemsPop DEF BufferShape, CascadeInv
<1> HIDE DEF top
<1>3. Delivered' = Delivered
  BY <1>1 DEF Delivered, Elems
<1>4. /\ DOMAIN waiting_on' = DOMAIN waiting_on \ {top}
      /\ \A p \in DOMAIN waiting_on' : waiting_on'[p] = waiting_on[p]
      /\ waiting_on' \in [DOMAIN waiting_on' -> SUBSET Blocks]
  BY <1>1 DEF Drop, BufferShape
<1>5. BufferShape'
  BY <1>1, <1>2, <1>4 DEF BufferShape
<1>6. CascadeInv'
  BY <1>1, <1>2, <1>3 DEF CascadeInv, Idle
<1>7. MissingInv'
  BY <1>1, <1>2, <1>3 DEF MissingInv, CascadeInv
<1>8. WaitersInv'
  <2>1. \A b \in Blocks : b \in waiters' <=>
          (b \in DOMAIN pending /\ top \in pending[b].missing)
    BY <1>1, <1>2 DEF IndexInv
  <2> QED BY <1>1, <2>1 DEF WaitersInv
<1>9. IndexInv'
  <2>1. ASSUME NEW p \in Blocks, NEW b \in Blocks
        PROVE  (p \in DOMAIN waiting_on' /\ b \in waiting_on'[p])
                 <=> (b \in DOMAIN pending /\ p \in pending[b].missing /\ p # top)
    <3>1. (p \in DOMAIN waiting_on /\ b \in waiting_on[p])
            <=> (b \in DOMAIN pending /\ p \in pending[b].missing)
      BY <1>1 DEF IndexInv
    <3> QED BY <1>4, <3>1
  <2>2. \A p \in DOMAIN waiting_on' : waiting_on'[p] # {}
    BY <1>4 DEF IndexInv
  <2> QED BY <1>1, <2>1, <2>2 DEF IndexInv
<1> QED BY <1>3, <1>5, <1>6, <1>7, <1>8, <1>9

\* Visiting the last missing parent of a waiter: it is released, after all of
\* its parents.
LEMMA ReleaseKeeps ==
  ASSUME BufferInv, NEW w \in waiters, w \in DOMAIN pending, LastMissing(w),
         Release(w), waiters' = waiters \ {w},
         UNCHANGED <<waiting_on, avail, seen, round>>
  PROVE  /\ BufferInv' /\ Delivered' = Delivered \cup {w}
         /\ w \notin Delivered /\ Parents[w] \subseteq Delivered
<1> USE DEF BufferInv
<1>1. w \in Blocks /\ w \notin Delivered
  BY DEF BufferShape, MissingInv
<1>2. PICK a \in Blocks : avail = {a}
  BY DEF BufferShape, WaitersInv
<1>3. Parents[w] \subseteq Delivered
  BY DEF MissingInv, CascadeInv, LastMissing
<1>4. /\ DOMAIN pending' = DOMAIN pending \ {w}
      /\ \A b \in DOMAIN pending' : pending'[b] = pending[b]
      /\ pending' \in [DOMAIN pending' -> [missing : SUBSET Blocks, inserted_round : Nat]]
      /\ IsFiniteSet(DOMAIN pending') /\ Cardinality(DOMAIN pending') <= cap
  BY DropPending DEF Release
<1>5. /\ Elems(released') = Elems(released) \cup {w} /\ released' \in Seq(Blocks)
      /\ Elems(frontier') = Elems(frontier) \cup {w} /\ frontier' \in Seq(Blocks)
  BY <1>1, ElemsAppend DEF Release, BufferShape
<1>6. Delivered' = Delivered \cup {w}
  BY <1>5 DEF Delivered
<1>7. BufferShape'
  BY <1>4, <1>5 DEF BufferShape
<1>8. CascadeInv'
  <2>1. avail \cap Elems(frontier') = {}
    BY <1>1, <1>5 DEF CascadeInv
  <2>2. \A i, j \in 1..Len(frontier') : frontier'[i] = frontier'[j] => i = j
    <3>1. /\ Len(frontier') = Len(frontier) + 1 /\ Len(frontier) \in Nat
          /\ frontier'[Len(frontier) + 1] = w
          /\ \A i \in 1..Len(frontier) : frontier'[i] = frontier[i]
      BY <1>1 DEF Release, BufferShape
    <3>2. \A i \in 1..Len(frontier) : frontier[i] # w
      BY <1>1 DEF CascadeInv, Elems
    <3>3. 1..(Len(frontier) + 1) = (1..Len(frontier)) \cup {Len(frontier) + 1}
      BY <3>1
    <3> QED BY <3>1, <3>2, <3>3 DEF CascadeInv
  <2> QED BY <1>2, <1>5, <1>6, <2>1, <2>2 DEF CascadeInv, Idle
<1>9. MissingInv'
  BY <1>4, <1>5, <1>6 DEF MissingInv
<1>10. WaitersInv'
  BY <1>2, <1>4 DEF WaitersInv
<1>11. IndexInv'
  <2>1. pending[w].missing \subseteq avail
    BY DEF LastMissing
  <2> QED BY <1>4, <2>1 DEF IndexInv
<1> QED BY <1>1, <1>3, <1>6, <1>7, <1>8, <1>9, <1>10, <1>11

\* Visiting a waiter that misses other parents as well.
LEMMA VisitOnlyKeeps ==
  ASSUME BufferInv, NEW w \in waiters, ~LastMissing(w),
         pending' = [b \in DOMAIN pending |-> IF b # w THEN pending[b]
                          ELSE [pending[w] EXCEPT !.missing = @ \ avail]],
         waiters' = waiters \ {w},
         UNCHANGED <<waiting_on, avail, seen, round, released, frontier>>
  PROVE  BufferInv' /\ Delivered' = Delivered
<1> USE DEF BufferInv
<1>1. PICK a \in Blocks : avail = {a}
  BY DEF BufferShape, WaitersInv
<1>2. w \in DOMAIN pending /\ w \in Blocks
  BY <1>1 DEF WaitersInv, BufferShape
<1>3. /\ DOMAIN pending' = DOMAIN pending
      /\ \A b \in DOMAIN pending : b # w => pending'[b] = pending[b]
      /\ pending'[w].missing = pending[w].missing \ avail
      /\ pending' \in [DOMAIN pending' -> [missing : SUBSET Blocks, inserted_round : Nat]]
  BY <1>2 DEF BufferShape
<1>4. Delivered' = Delivered /\ Elems(frontier)' = Elems(frontier)
  BY DEF Delivered, Elems
<1>5. pending'[w].missing # {}
  BY <1>3 DEF LastMissing
<1>6. BufferShape'
  BY <1>3 DEF BufferShape
<1>7. CascadeInv'
  BY <1>4 DEF CascadeInv, Idle
<1>8. MissingInv'
  <2>1. ASSUME NEW b \in DOMAIN pending'
        PROVE  /\ pending'[b].missing # {}
               /\ pending'[b].missing \subseteq Parents[b]
               /\ \A p \in Parents[b] :
                    (p \notin Delivered \/ p \in Elems(frontier))
                      => p \in pending'[b].missing
               /\ \A p \in pending'[b].missing :
                    p \notin Delivered \/ p \in Elems(frontier) \/ p \in avail
    <3>1. CASE b # w
      BY <1>3, <3>1 DEF MissingInv
    <3>2. CASE b = w
      BY <1>3, <1>5, <3>2 DEF MissingInv, CascadeInv
    <3> QED BY <3>1, <3>2
  <2> QED BY <1>3, <1>4, <2>1 DEF MissingInv
<1>9. WaitersInv'
  BY <1>1, <1>2, <1>3 DEF WaitersInv
<1>10. IndexInv'
  BY <1>3 DEF IndexInv
<1> QED BY <1>4, <1>6, <1>7, <1>8, <1>9, <1>10

\* The end of a turn of mark_seen, when all waiters have been visited.
LEMMA WaitersDoneKeeps ==
  ASSUME BufferInv, WaitersDone
  PROVE  BufferInv' /\ Delivered' = Delivered
<1> USE DEF BufferInv
<1>1. /\ avail # {} /\ waiters = {} /\ avail' = {}
      /\ UNCHANGED <<pending, waiting_on, frontier, waiters, round>>
  BY DEF WaitersDone
<1>2. Delivered' = Delivered /\ BufferShape'
  <2>1. CASE frontier = <<>>
    <3>1. seen' = seen \cup Elems(released) /\ released' = <<>>
      BY <2>1 DEF WaitersDone, Elems
    <3>2. Elems(released) \subseteq Blocks
      BY DEF Elems, BufferShape
    <3> QED BY <1>1, <3>1, <3>2, ElemsEmpty DEF Delivered, BufferShape
  <2>2. CASE frontier # <<>>
    BY <1>1, <2>2 DEF WaitersDone, Delivered, Elems, BufferShape
  <2> QED BY <2>1, <2>2
<1>3. PICK a \in Blocks : avail = {a}
  BY <1>1 DEF BufferShape
<1>4. Elems(frontier)' = Elems(frontier)
  BY <1>1 DEF Elems
<1>5. CascadeInv'
  BY <1>1, <1>2, <1>4 DEF CascadeInv, Idle, WaitersDone
<1>6. \A b \in DOMAIN pending : a \notin pending[b].missing
  BY <1>1, <1>3 DEF WaitersInv, BufferShape
<1>7. MissingInv'
  BY <1>1, <1>2, <1>3, <1>4, <1>6 DEF MissingInv
<1>8. WaitersInv'
  BY <1>1 DEF WaitersInv
<1>9. IndexInv'
  BY <1>1, <1>3, <1>6 DEF IndexInv
<1> QED BY <1>2, <1>5, <1>7, <1>8, <1>9

\* evict_expired drops entries together with their places in the index.
LEMMA NextRoundKeeps ==
  ASSUME BufferInv, NextRound
  PROVE  BufferInv' /\ Delivered' = Delivered
<1> USE DEF BufferInv
<1> DEFINE expired == {b \in DOMAIN pending :
                         round' - pending[b].inserted_round > ttl_rounds}
<1>1. /\ released = <<>> /\ Delivered = seen /\ Elems(frontier) = {}
      /\ waiters = {} /\ avail = {}
  BY IdleState DEF NextRound
<1>2. /\ round' = round + 1
      /\ waiting_on' = CleanIndex(expired)
      /\ pending' = Drop(pending, expired)
      /\ UNCHANGED <<frontier, avail, waiters, released, seen>>
  BY DEF NextRound
<1>3. expired \subseteq DOMAIN pending
  OBVIOUS
<1> HIDE DEF expired
<1>4. /\ DOMAIN pending' = DOMAIN pending \ expired
      /\ \A b \in DOMAIN pending' : pending'[b] = pending[b]
      /\ pending' \in [DOMAIN pending' -> [missing : SUBSET Blocks, inserted_round : Nat]]
      /\ IsFiniteSet(DOMAIN pending') /\ Cardinality(DOMAIN pending') <= cap
  BY <1>2, DropPending
<1> DEFINE gone(p) == {b \in expired : p \in pending[b].missing}
<1>5. /\ DOMAIN waiting_on' = {p \in DOMAIN waiting_on : waiting_on[p] \ gone(p) # {}}
      /\ \A p \in DOMAIN waiting_on' : waiting_on'[p] = waiting_on[p] \ gone(p)
  BY <1>2 DEF CleanIndex
<1>6. waiting_on' \in [DOMAIN waiting_on' -> SUBSET Blocks]
  <2>1. waiting_on' = [p \in DOMAIN waiting_on' |-> waiting_on'[p]]
    BY <1>2 DEF CleanIndex
  <2> QED BY <1>5, <2>1 DEF BufferShape
<1>7. Delivered' = Delivered /\ Elems(frontier)' = Elems(frontier)
  BY <1>2 DEF Delivered, Elems
<1>8. BufferShape'
  BY <1>2, <1>4, <1>5, <1>6 DEF BufferShape
<1>9. CascadeInv'
  BY <1>2, <1>7 DEF CascadeInv, Idle
<1>10. MissingInv'
  BY <1>2, <1>4, <1>7 DEF MissingInv
<1>11. WaitersInv'
  BY <1>1, <1>2 DEF WaitersInv
<1>12. IndexInv'
  <2>1. ASSUME NEW p \in Blocks, NEW b \in Blocks
        PROVE (p \in DOMAIN waiting_on' /\ b \in waiting_on'[p])
                <=> (b \in DOMAIN pending' /\ p \in pending'[b].missing /\ p \notin avail')
    <3>1. (p \in DOMAIN waiting_on /\ b \in waiting_on[p])
            <=> (b \in DOMAIN pending /\ p \in pending[b].missing)
      BY <1>1 DEF IndexInv
    <3>2. (p \in DOMAIN waiting_on' /\ b \in waiting_on'[p])
            <=> (p \in DOMAIN waiting_on /\ b \in waiting_on[p] \ gone(p))
      BY <1>5
    <3> QED BY <1>1, <1>2, <1>3, <1>4, <3>1, <3>2
  <2>2. \A p \in DOMAIN waiting_on' : waiting_on'[p] # {}
    BY <1>5
  <2> QED BY <2>1, <2>2 DEF IndexInv
<1> QED BY <1>7, <1>8, <1>9, <1>10, <1>11, <1>12

-----------------------------------------------------------------------------
\* Every step keeps the invariant, and delivers nothing or one block after
\* all of its parents.
LEMMA BufferStep ==
  ASSUME BufferInv, [BufferNext]_bufferVars
  PROVE  /\ BufferInv'
         /\ \/ Delivered' = Delivered
            \/ \E b \in Blocks : /\ b \notin Delivered /\ Parents[b] \subseteq Delivered
                                 /\ Delivered' = Delivered \cup {b}
<1>1. CASE UNCHANGED bufferVars
  <2>1. /\ Delivered' = Delivered /\ Elems(frontier)' = Elems(frontier)
        /\ Idle' = Idle
    BY <1>1 DEF bufferVars, Delivered, Elems, Idle
  <2>2. BufferShape' = BufferShape
    BY <1>1 DEF bufferVars, BufferShape
  <2>3. CascadeInv' = CascadeInv
    BY <1>1, <2>1 DEF bufferVars, CascadeInv
  <2>4. MissingInv' = MissingInv
    BY <1>1, <2>1 DEF bufferVars, MissingInv
  <2>5. WaitersInv' = WaitersInv /\ IndexInv' = IndexInv
    BY <1>1 DEF bufferVars, WaitersInv, IndexInv
  <2> QED BY <2>1, <2>2, <2>3, <2>4, <2>5 DEF BufferInv
<1>2. ASSUME NEW b \in Blocks, OfferBuffered(b) PROVE BufferInv' /\ Delivered' = Delivered
  BY <1>2, OfferBufferedKeeps
<1>3. ASSUME NEW b \in Blocks, OfferReady(b)
      PROVE  /\ BufferInv' /\ Delivered' = Delivered \cup {b}
             /\ b \notin Delivered /\ Parents[b] \subseteq Delivered
  BY <1>3, OfferReadyKeeps
<1>4. ASSUME NEW w \in Blocks, VisitWaiter(w)
      PROVE  /\ BufferInv'
             /\ \/ Delivered' = Delivered
                \/ /\ w \notin Delivered /\ Parents[w] \subseteq Delivered
                   /\ Delivered' = Delivered \cup {w}
  <2>1. w \in DOMAIN pending
    BY <1>4 DEF VisitWaiter, BufferInv, WaitersInv
  <2>2. CASE LastMissing(w)
    BY <1>4, <2>1, <2>2, ReleaseKeeps DEF VisitWaiter
  <2>3. CASE ~LastMissing(w)
    BY <1>4, <2>1, <2>3, VisitOnlyKeeps DEF VisitWaiter
  <2> QED BY <2>2, <2>3
<1>5. CASE BufferNext
  BY <1>2, <1>3, <1>4, <1>5, PopFrontierKeeps, WaitersDoneKeeps, NextRoundKeeps
     DEF BufferNext
<1> QED BY <1>1, <1>5

\* Waiting blocks, their missing parents, the reverse index and the cascade of
\* mark_seen fit together after every step, for every graph of blocks and cap.
THEOREM BufferInvariant == BufferSpec => []BufferInv
<1>1. BufferInv /\ [BufferNext]_bufferVars => BufferInv'
  BY BufferStep
<1> QED BY <1>1, BufferInitial, PTL DEF BufferSpec

\* waiting_on is the inverse of the missing sets whenever no call is under way.
THEOREM IndexIsInverseHolds == BufferSpec => []IndexIsInverse
<1>1. BufferInv => IndexIsInverse
  BY DEF BufferInv, IndexInv, IndexIsInverse, Idle
<1> QED BY <1>1, BufferInvariant, PTL

\* A buffered block waits for exactly its unseen parents, of which there is
\* one, and the buffer is within its cap.
THEOREM WaitsForUnseenHolds == BufferSpec => []WaitsForUnseen
<1>1. BufferInv => WaitsForUnseen
  <2> SUFFICES ASSUME BufferInv PROVE WaitsForUnseen
    OBVIOUS
  <2>1. Cardinality(DOMAIN pending) <= cap
    BY DEF BufferInv, BufferShape
  <2>2. ASSUME Idle, NEW b \in DOMAIN pending
        PROVE  pending[b].missing = Parents[b] \ seen /\ pending[b].missing # {}
    <3>1. Delivered = seen /\ Elems(frontier) = {} /\ avail = {}
      BY <2>2, IdleState
    <3> QED BY <3>1 DEF BufferInv, MissingInv
  <2> QED BY <2>1, <2>2 DEF WaitsForUnseen
<1> QED BY <1>1, BufferInvariant, PTL

\* The buffer implements causal delivery: each block reaches the DAG once and
\* after all of its parents, in whatever order mark_seen walks its hash sets.
THEOREM CausalDeliveryRefined == BufferSpec => ImplementsCausalDelivery
<1>1. BufferInit => Causal!CausalInit
  <2>1. BufferInit => Delivered = {}
    BY ElemsEmpty DEF BufferInit, Delivered
  <2> QED BY <2>1 DEF Causal!CausalInit, Delivered, Elems
<1>2. BufferInv /\ [BufferNext]_bufferVars
        => [Causal!CausalNext]_(seen \cup {released[i] : i \in 1..Len(released)})
  <2> SUFFICES ASSUME BufferInv, [BufferNext]_bufferVars
               PROVE  [Causal!CausalNext]_(seen \cup {released[i] : i \in 1..Len(released)})
    OBVIOUS
  <2>1. \/ Delivered' = Delivered
        \/ \E b \in Blocks : /\ b \notin Delivered /\ Parents[b] \subseteq Delivered
                             /\ Delivered' = Delivered \cup {b}
    BY BufferStep
  <2> QED BY <2>1 DEF Causal!CausalNext, Causal!Deliver, Delivered, Elems
<1> QED BY <1>1, <1>2, BufferInvariant, PTL
        DEF BufferSpec, ImplementsCausalDelivery, Causal!CausalSpec

-----------------------------------------------------------------------------
(* The cross-shard router.                                                 *)

Message == [id : Nat, to_shard : Shards, target_energy : MessageEnergies]

Sent == Queued \cup Range(delivered) \cup dropped

\* The shape of the state.
RouterShape ==
  /\ queues \in [Shards -> Seq(Message)] /\ delivered \in Seq(Message)
  /\ dropped \subseteq Message
  /\ IsFiniteSet(dropped) /\ IsFiniteSet(Queued)
  /\ next_id \in Nat
  /\ IsFiniteSet(pending_receipts) /\ pending_receipts \subseteq 0..(next_id - 1)

\* A message is in one place, and no other one has its id.
OnePlace ==
  /\ \A s \in Shards : \A m \in Range(queues[s]) : m.to_shard = s
  /\ Queued \cap Range(delivered) = {}
  /\ dropped \cap (Queued \cup Range(delivered)) = {}
  /\ \A m, n \in Sent : m.id = n.id => m = n

\* The inductive invariant: FreshestSurvive needs the ids to be unique, since a
\* receipt names a message by its id only.
RouterInv == RouterShape /\ OnePlace /\ MessagesAccounted /\ FreshestSurvive

InOrder(q) == \A i, j \in DOMAIN q : i < j => q[i].id < q[j].id

-----------------------------------------------------------------------------
\* Facts about sequences of messages, for the queues of the router.
LEMMA SeqFacts ==
  ASSUME NEW s \in Seq(Message)
  PROVE  /\ DOMAIN s = 1..Len(s) /\ Len(s) \in Nat /\ s \in [1..Len(s) -> Message]
         /\ Range(s) = {s[i] : i \in 1..Len(s)} /\ Range(s) \subseteq Message
<1>1. DOMAIN s = 1..Len(s) /\ Len(s) \in Nat /\ s \in [1..Len(s) -> Message]
  BY LenProperties
<1>2. Range(s) = {s[i] : i \in 1..Len(s)}
  BY RangeEquality
<1>3. Range(s) \subseteq Message
  BY RangeOfSeq
<1> QED BY <1>1, <1>2, <1>3

LEMMA RangeOfEmpty == Range(<<>>) = {}
BY DEF Range

LEMMA RangeOfAppend ==
  ASSUME NEW s \in Seq(Message), NEW e \in Message
  PROVE  Append(s, e) \in Seq(Message) /\ Range(Append(s, e)) = Range(s) \cup {e}
<1>1. /\ Append(s, e) \in Seq(Message) /\ Len(Append(s, e)) = Len(s) + 1
      /\ Append(s, e)[Len(s) + 1] = e
      /\ \A i \in 1..Len(s) : Append(s, e)[i] = s[i]
  OBVIOUS
<1>2. Len(s) \in Nat /\ 1..(Len(s) + 1) = (1..Len(s)) \cup {Len(s) + 1}
  OBVIOUS
<1>3. /\ Range(s) = {s[i] : i \in 1..Len(s)}
      /\ Range(Append(s, e)) = {Append(s, e)[i] : i \in 1..(Len(s) + 1)}
  <2>1. Range(Append(s, e)) = {Append(s, e)[i] : i \in 1..Len(Append(s, e))}
    BY <1>1, SeqFacts
  <2> QED BY <1>1, <2>1, SeqFacts
<1> QED BY <1>1, <1>2, <1>3

LEMMA RangeOfConcat ==
  ASSUME NEW s \in Seq(Message), NEW t \in Seq(Message)
  PROVE  /\ s \o t \in Seq(Message) /\ Len(s \o t) = Len(s) + Len(t)
         /\ Range(s \o t) = Range(s) \cup Range(t)
<1>1. s \o t \in Seq(Message) /\ Len(s \o t) = Len(s) + Len(t)
  BY ConcatProperties
<1>2. Range(s \o t) = Range(s) \cup Range(t)
  BY RangeConcatenation
<1> QED BY <1>1, <1>2

\* The queue in the order of sending without its front.
LEMMA RangeOfTail ==
  ASSUME NEW q \in Seq(Message), q # <<>>, InOrder(q)
  PROVE  /\ Tail(q) \in Seq(Message) /\ InOrder(Tail(q))
         /\ Head(q) \in Range(q) /\ Range(Tail(q)) = Range(q) \ {Head(q)}
         /\ \A m \in Range(Tail(q)) : Head(q).id < m.id
<1>1. /\ Tail(q) \in Seq(Message) /\ Len(Tail(q)) = Len(q) - 1 /\ Head(q) = q[1]
      /\ Len(q) \in Nat /\ Len(q) >= 1
      /\ \A i \in 1..Len(Tail(q)) : Tail(q)[i] = q[i + 1]
  <2>1. Len(q) \in Nat \ {0}
    BY EmptySeq, Zenon
  <2> QED BY <2>1, HeadTailProperties
<1>2. /\ Range(q) = {q[i] : i \in 1..Len(q)} /\ DOMAIN q = 1..Len(q)
      /\ Range(Tail(q)) = {Tail(q)[i] : i \in 1..Len(Tail(q))}
      /\ DOMAIN Tail(q) = 1..Len(Tail(q))
      /\ Range(q) \subseteq Message
  BY <1>1, SeqFacts
<1>3. \A m \in Range(Tail(q)) : Head(q).id < m.id /\ m \in Range(q)
  BY <1>1, <1>2 DEF InOrder
<1>4. ASSUME NEW i \in 1..Len(q), q[i] # Head(q) PROVE q[i] \in Range(Tail(q))
  <2>1. i # 1
    BY <1>1, <1>4
  <2>2. i - 1 \in 1..Len(Tail(q)) /\ (i - 1) + 1 = i
    BY <1>1, <2>1
  <2>3. Tail(q)[i - 1] = q[i]
    BY <1>1, <2>2
  <2> QED BY <1>2, <2>2, <2>3
<1>5. Head(q) \in Range(q) /\ Head(q).id \in Nat
  BY <1>1, <1>2 DEF Message
<1>6. Range(Tail(q)) = Range(q) \ {Head(q)}
  BY <1>2, <1>3, <1>4, <1>5
<1>7. InOrder(Tail(q))
  BY <1>1, <1>2 DEF InOrder
<1> QED BY <1>1, <1>3, <1>5, <1>6, <1>7

\* A queue in order holds as many messages as it is long.
LEMMA InOrderCount ==
  ASSUME NEW q \in Seq(Message), InOrder(q)
  PROVE  IsFiniteSet(Range(q)) /\ Cardinality(Range(q)) = Len(q)
<1>1. DOMAIN q = 1..Len(q) /\ Len(q) \in Nat /\ Range(q) = {q[i] : i \in 1..Len(q)}
  BY SeqFacts
<1>2. \A i, j \in 1..Len(q) : q[i] = q[j] => i = j
  <2>1. ASSUME NEW i \in 1..Len(q), NEW j \in 1..Len(q), i < j PROVE q[i] # q[j]
    <3>1. q[i].id < q[j].id
      BY <1>1, <2>1 DEF InOrder
    <3>2. q[i] \in Message
      BY SeqFacts
    <3>3. q[i].id \in Nat
      BY <3>2 DEF Message
    <3> QED BY <3>1, <3>3
  <2> QED BY <1>1, <2>1
<1>3. q \in Bijection(1..Len(q), Range(q))
  <2>1. q \in [1..Len(q) -> Range(q)]
    BY <1>1, SeqFacts
  <2>2. \A m \in Range(q) : \E i \in 1..Len(q) : q[i] = m
    BY <1>1
  <2> QED BY <1>2, <2>1, <2>2, Fun_IsBij
<1>4. /\ IsFiniteSet(1..Len(q)) /\ Cardinality(1..Len(q)) = Len(q)
  <2>1. Cardinality(1..Len(q)) = IF 1 > Len(q) THEN 0 ELSE Len(q) - 1 + 1
    BY <1>1, FS_Interval
  <2>2. IsFiniteSet(1..Len(q))
    BY <1>1, FS_Interval
  <2> QED BY <1>1, <2>1, <2>2
<1> QED BY <1>3, <1>4, FS_Bijection DEF ExistsBijection

-----------------------------------------------------------------------------
\* The empty router satisfies the invariant.
LEMMA RouterInitial == RouterInit => RouterInv
<1> SUFFICES ASSUME RouterInit PROVE RouterInv
  OBVIOUS
<1>1. \A s \in Shards : queues[s] = <<>> /\ Range(queues[s]) = {}
  BY RangeOfEmpty DEF RouterInit
<1>2. Queued = {} /\ Range(delivered) = {} /\ dropped = {} /\ Sent = {}
  BY <1>1, RangeOfEmpty DEF RouterInit, Queued, Sent
<1>3. IsFiniteSet({}) /\ Cardinality({}) = 0
  BY FS_EmptySet
<1>4. RouterShape
  BY <1>2, <1>3 DEF RouterInit, RouterShape
<1>5. OnePlace
  BY <1>1, <1>2 DEF OnePlace
<1>6. MessagesAccounted
  <2>1. Len(delivered) = 0 /\ next_id = 0 /\ 0..(next_id - 1) = {}
    BY DEF RouterInit
  <2>2. {m.id : m \in Queued \cup Range(delivered) \cup dropped} = {}
    BY <1>2
  <2>3. \A s \in Shards : DOMAIN queues[s] = {}
    BY <1>1
  <2> QED BY <1>2, <1>3, <2>1, <2>2, <2>3 DEF MessagesAccounted
<1>7. FreshestSurvive
  <2>1. pending_receipts = {}
    BY DEF RouterInit
  <2> QED BY <1>2, <1>3, <2>1, RouterAssumption DEF FreshestSurvive
<1> QED BY <1>4, <1>5, <1>6, <1>7 DEF RouterInv

\* Ids are given out in order.
LEMMA SentIds ==
  ASSUME RouterInv
  PROVE  /\ Sent \subseteq Message /\ Queued \subseteq Sent /\ dropped \subseteq Sent
         /\ \A m \in Sent : m.id \in Nat /\ m.id < next_id
         /\ \A s \in Shards : Range(queues[s]) \subseteq Queued
<1>1. \A s \in Shards : queues[s] \in Seq(Message)
  BY DEF RouterInv, RouterShape
<1>2. \A s \in Shards : Range(queues[s]) \subseteq Message
  BY <1>1, SeqFacts
<1>3. Queued \subseteq Message /\ \A s \in Shards : Range(queues[s]) \subseteq Queued
  BY <1>2 DEF Queued
<1>4. Range(delivered) \subseteq Message
  BY SeqFacts DEF RouterInv, RouterShape
<1>5. Sent \subseteq Message
  BY <1>3, <1>4 DEF Sent, RouterInv, RouterShape
<1>6. \A m \in Sent : m.id \in 0..(next_id - 1)
  BY DEF Sent, RouterInv, MessagesAccounted
<1>7. \A m \in Sent : m.id \in Nat /\ m.id < next_id
  BY <1>6 DEF RouterInv, RouterShape
<1> QED BY <1>3, <1>5, <1>7 DEF Sent

\* What the receipts make of a send: at the cap the oldest one is given up.
LEMMA ReceiptsOfSend ==
  ASSUME RouterInv,
         pending_receipts' = OutstandingKept(pending_receipts) \cup {next_id}
  PROVE  /\ IsFiniteSet(pending_receipts') /\ pending_receipts' \subseteq 0..next_id
         /\ Cardinality(pending_receipts') <= MAX_PENDING_RECEIPTS
         /\ \A id \in pending_receipts \ pending_receipts' :
              \A other \in pending_receipts' : id < other
         /\ pending_receipts' \subseteq pending_receipts \cup {next_id}
<1> DEFINE pr == pending_receipts
           kept == OutstandingKept(pr)
<1>1. /\ IsFiniteSet(pr) /\ pr \subseteq 0..(next_id - 1) /\ next_id \in Nat
      /\ Cardinality(pr) <= MAX_PENDING_RECEIPTS /\ Cardinality(pr) \in Nat
      /\ pr \in SUBSET Nat
  <2>1. /\ IsFiniteSet(pr) /\ pr \subseteq 0..(next_id - 1) /\ next_id \in Nat
        /\ Cardinality(pr) <= MAX_PENDING_RECEIPTS
    BY DEF RouterInv, RouterShape, FreshestSurvive
  <2> QED BY <2>1, FS_CardinalityType
<1>2. /\ kept \subseteq pr /\ IsFiniteSet(kept)
      /\ Cardinality(kept) \in Nat /\ Cardinality(kept) + 1 <= MAX_PENDING_RECEIPTS
      /\ \A id \in pr \ kept : \A other \in kept : id < other
  <2>1. CASE Cardinality(pr) >= MAX_PENDING_RECEIPTS
    <3>1. pr # {}
      BY <2>1, FS_EmptySet, RouterAssumption
    <3>2. Min(pr) \in pr /\ \A x \in pr : Min(pr) <= x
      BY <1>1, <3>1, MinIsLeast
    <3>3. kept = pr \ {Min(pr)}
      BY <2>1 DEF OutstandingKept
    <3>4. IsFiniteSet(kept) /\ Cardinality(kept) = Cardinality(pr) - 1
      BY <1>1, <3>2, <3>3, FS_RemoveElement
    <3>5. Cardinality(kept) \in Nat
      BY <3>4, FS_CardinalityType
    <3>6. ASSUME NEW id \in pr \ kept, NEW other \in kept PROVE id < other
      <4>1. id = Min(pr) /\ other \in pr /\ other # Min(pr)
        BY <3>3
      <4>2. id \in Nat /\ other \in Nat /\ id <= other
        BY <1>1, <3>2, <4>1
      <4> QED BY <4>1, <4>2
    <3> HIDE DEF kept
    <3> QED BY <1>1, <3>3, <3>4, <3>5, <3>6, RouterAssumption
  <2>2. CASE ~(Cardinality(pr) >= MAX_PENDING_RECEIPTS)
    <3>1. kept = pr
      BY <2>2 DEF OutstandingKept
    <3> HIDE DEF kept
    <3> QED BY <1>1, <2>2, <3>1, RouterAssumption
  <2> QED BY <2>1, <2>2
<1>3. next_id \notin kept
  BY <1>1, <1>2
<1>4. /\ IsFiniteSet(kept \cup {next_id})
      /\ Cardinality(kept \cup {next_id}) = Cardinality(kept) + 1
  BY <1>2, <1>3, FS_AddElement
<1>5. ASSUME NEW id \in pr \ pending_receipts', NEW other \in pending_receipts'
      PROVE  id < other
  <2>1. id \in pr \ kept /\ id \in Nat /\ id < next_id
    BY <1>1
  <2> QED BY <1>2, <2>1
<1>6. pending_receipts' = kept \cup {next_id}
  OBVIOUS
<1> HIDE DEF kept
<1>7. Cardinality(pending_receipts') <= MAX_PENDING_RECEIPTS
  BY <1>2, <1>4, <1>6
<1>8. pending_receipts' \subseteq 0..next_id
  <2>1. \A id \in 0..(next_id - 1) : id \in 0..next_id
    BY <1>1
  <2>2. next_id \in 0..next_id
    BY <1>1
  <2> QED BY <1>1, <1>2, <1>6, <2>1, <2>2
<1> QED BY <1>2, <1>4, <1>5, <1>6, <1>7, <1>8

\* What the queue makes of a send: at the cap its front is given up.
LEMMA QueueOfSend ==
  ASSUME RouterInv, NEW to \in Shards
  PROVE  LET q    == queues[to]
             kept == IF Len(q) >= MAX_PER_SHARD_QUEUE THEN EvictFront(q) ELSE q
             out  == Range(q) \ Range(kept)
         IN /\ kept \in Seq(Message) /\ InOrder(kept) /\ Range(kept) \subseteq Range(q)
            /\ \A o \in out : \A m \in Range(kept) : o.id < m.id
            /\ out = {} \/ \E o \in Range(q) : out = {o}
<1> DEFINE q    == queues[to]
           kept == IF Len(q) >= MAX_PER_SHARD_QUEUE THEN EvictFront(q) ELSE q
           out  == Range(q) \ Range(kept)
<1>1. q \in Seq(Message) /\ InOrder(q)
  BY DEF RouterInv, RouterShape, MessagesAccounted, InOrder
<1> HIDE DEF q
<1>2. CASE Len(q) >= MAX_PER_SHARD_QUEUE
  <2>1. q # <<>>
    BY <1>2, RouterAssumption
  <2>2. kept = Tail(q)
    BY <1>2 DEF EvictFront
  <2>3. /\ Tail(q) \in Seq(Message) /\ InOrder(Tail(q))
        /\ Head(q) \in Range(q) /\ Range(Tail(q)) = Range(q) \ {Head(q)}
        /\ \A m \in Range(Tail(q)) : Head(q).id < m.id
    BY <1>1, <2>1, RangeOfTail
  <2>4. out = {Head(q)}
    BY <2>2, <2>3
  <2> HIDE DEF kept, out
  <2> QED BY <2>2, <2>3, <2>4 DEF q, kept, out
<1>3. CASE ~(Len(q) >= MAX_PER_SHARD_QUEUE)
  BY <1>1, <1>3 DEF q
<1> QED BY <1>2, <1>3

\* send, with the evictions of both caps.
LEMMA SendKeeps ==
  ASSUME RouterInv, NEW to \in Shards, NEW energy \in MessageEnergies, Send(to, energy)
  PROVE  RouterInv'
<1> DEFINE q    == queues[to]
           msg  == [id |-> next_id, to_shard |-> to, target_energy |-> energy]
           kept == IF Len(q) >= MAX_PER_SHARD_QUEUE THEN EvictFront(q) ELSE q
           out  == Range(q) \ Range(kept)
<1>1. /\ pending_receipts' = OutstandingKept(pending_receipts) \cup {next_id}
      /\ queues' = [queues EXCEPT ![to] = Append(kept, msg)]
      /\ dropped' = dropped \cup out
      /\ next_id' = next_id + 1 /\ delivered' = delivered
  BY DEF Send
<1>2. /\ kept \in Seq(Message) /\ InOrder(kept) /\ Range(kept) \subseteq Range(q)
      /\ \A o \in out : \A m \in Range(kept) : o.id < m.id
      /\ out = {} \/ \E o \in Range(q) : out = {o}
      /\ out = Range(q) \ Range(kept)
  BY QueueOfSend
<1>3. /\ Sent \subseteq Message /\ Queued \subseteq Sent /\ dropped \subseteq Sent
      /\ \A m \in Sent : m.id \in Nat /\ m.id < next_id
      /\ \A s \in Shards : Range(queues[s]) \subseteq Queued
      /\ q \in Seq(Message) /\ next_id \in Nat
  BY SentIds DEF RouterInv, RouterShape
<1>4. msg \in Message /\ msg.id = next_id /\ msg.to_shard = to
  BY <1>3 DEF Message
<1>5. msg \notin Sent
  BY <1>3, <1>4
<1>6. Range(q) \subseteq Queued /\ out \subseteq Queued
  BY <1>3
<1> HIDE DEF q, msg, kept, out
<1>7. /\ Append(kept, msg) \in Seq(Message)
      /\ Range(Append(kept, msg)) = Range(kept) \cup {msg}
  BY <1>2, <1>4, RangeOfAppend
<1>8. /\ queues' \in [Shards -> Seq(Message)]
      /\ queues'[to] = Append(kept, msg)
      /\ \A s \in Shards : s # to => queues'[s] = queues[s]
  BY <1>1, <1>7 DEF RouterInv, RouterShape
<1>9. \A m \in Queued : m \in Range(q) <=> m.to_shard = to
  BY DEF RouterInv, OnePlace, Queued, q
<1>10. Queued' = (Queued \ out) \cup {msg}
  <2>1. \A m : m \in Queued' <=> \E s \in Shards : m \in Range(queues'[s])
    BY DEF Queued
  <2>2. \A m : m \in Queued <=> \E s \in Shards : m \in Range(queues[s])
    BY DEF Queued
  <2>3. ASSUME NEW m \in Queued' PROVE m \in (Queued \ out) \cup {msg}
    <3>1. PICK s \in Shards : m \in Range(queues'[s])
      BY <2>1
    <3>2. CASE s = to
      BY <1>2, <1>6, <1>7, <1>8, <3>1, <3>2
    <3>3. CASE s # to
      <4>1. m \in Range(queues[s]) /\ m \in Queued
        BY <1>8, <2>2, <3>1, <3>3
      <4>2. m.to_shard = s
        BY <4>1 DEF RouterInv, OnePlace
      <4> QED BY <1>2, <1>9, <3>3, <4>1, <4>2
    <3> QED BY <3>2, <3>3
  <2>4. ASSUME NEW m \in Queued \ out PROVE m \in Queued'
    <3>1. PICK s \in Shards : m \in Range(queues[s])
      BY <2>2
    <3>2. CASE s = to
      BY <1>2, <1>7, <1>8, <2>1, <3>1, <3>2 DEF q
    <3>3. CASE s # to
      BY <1>8, <2>1, <3>1, <3>3
    <3> QED BY <3>2, <3>3
  <2>5. msg \in Queued'
    BY <1>7, <1>8, <2>1
  <2> QED BY <2>3, <2>4, <2>5
<1>11. Sent' = Sent \cup {msg}
  BY <1>1, <1>6, <1>10 DEF Sent
<1>12. out \cap dropped = {}
  BY <1>6 DEF RouterInv, OnePlace
<1>13. /\ IsFiniteSet(out) /\ IsFiniteSet(Queued \ out) /\ IsFiniteSet(dropped \cup out)
       /\ Cardinality(Queued \ out) + Cardinality(dropped \cup out)
            = Cardinality(Queued) + Cardinality(dropped)
       /\ Cardinality(Queued \ out) \in Nat /\ Cardinality(dropped \cup out) \in Nat
  <2>1. IsFiniteSet(Queued) /\ IsFiniteSet(dropped)
        /\ Cardinality(Queued) \in Nat /\ Cardinality(dropped) \in Nat
    BY FS_CardinalityType DEF RouterInv, RouterShape
  <2>2. CASE out = {}
    <3>1. Queued \ out = Queued /\ dropped \cup out = dropped
      BY <2>2
    <3> QED BY <2>1, <2>2, <3>1, FS_EmptySet
  <2>3. CASE \E o \in Range(q) : out = {o}
    <3>1. PICK o \in Range(q) : out = {o}
      BY <2>3
    <3>2. o \in Queued /\ o \notin dropped
      BY <1>6, <1>12, <3>1
    <3>3. IsFiniteSet(Queued \ {o}) /\ Cardinality(Queued \ {o}) = Cardinality(Queued) - 1
      BY <2>1, <3>2, FS_RemoveElement
    <3>4. /\ IsFiniteSet(dropped \cup {o})
          /\ Cardinality(dropped \cup {o}) = Cardinality(dropped) + 1
      BY <2>1, <3>2, FS_AddElement
    <3>5. /\ Cardinality(Queued \ {o}) \in Nat /\ Cardinality(dropped \cup {o}) \in Nat
          /\ IsFiniteSet({o})
      BY <3>3, <3>4, FS_CardinalityType, FS_Singleton
    <3> QED BY <2>1, <3>1, <3>3, <3>4, <3>5
  <2> QED BY <1>2, <2>2, <2>3
<1>14. /\ IsFiniteSet(Queued') /\ Cardinality(Queued') = Cardinality(Queued \ out) + 1
  <2>1. msg \notin Queued \ out
    BY <1>3, <1>5
  <2> QED BY <1>10, <1>13, <2>1, FS_AddElement
<1>15. /\ IsFiniteSet(pending_receipts') /\ pending_receipts' \subseteq 0..next_id
       /\ Cardinality(pending_receipts') <= MAX_PENDING_RECEIPTS
       /\ \A id \in pending_receipts \ pending_receipts' :
            \A other \in pending_receipts' : id < other
       /\ pending_receipts' \subseteq pending_receipts \cup {next_id}
  BY <1>1, ReceiptsOfSend
<1>16. RouterShape'
  <2>1. dropped' \subseteq Message
    BY <1>1, <1>3, <1>6 DEF RouterInv, RouterShape
  <2>2. next_id' \in Nat /\ (next_id + 1) - 1 = next_id
    BY <1>1, <1>3
  <2>3. delivered' \in Seq(Message)
    BY <1>1 DEF RouterInv, RouterShape
  <2> QED BY <1>1, <1>8, <1>13, <1>14, <1>15, <2>1, <2>2, <2>3 DEF RouterShape
<1>17. OnePlace'
  <2>1. ASSUME NEW s \in Shards, NEW m \in Range(queues'[s]) PROVE m.to_shard = s
    <3>1. CASE s = to
      BY <1>2, <1>4, <1>6, <1>7, <1>8, <1>9, <2>1, <3>1
    <3>2. CASE s # to
      BY <1>8, <2>1, <3>2 DEF RouterInv, OnePlace
    <3> QED BY <3>1, <3>2
  <2>2. Queued' \cap Range(delivered') = {}
    BY <1>1, <1>5, <1>10 DEF RouterInv, OnePlace, Sent
  <2>3. dropped' \cap (Queued' \cup Range(delivered')) = {}
    BY <1>1, <1>3, <1>5, <1>6, <1>10 DEF RouterInv, OnePlace
  <2>4. \A m, n \in Sent' : m.id = n.id => m = n
    BY <1>3, <1>4, <1>11 DEF RouterInv, OnePlace
  <2> QED BY <2>1, <2>2, <2>3, <2>4 DEF OnePlace
<1>18. MessagesAccounted'
  <2>1. {m.id : m \in Sent'} = 0..next_id
    <3>1. {m.id : m \in Sent} = 0..(next_id - 1)
      BY DEF RouterInv, MessagesAccounted, Sent
    <3>2. 0..next_id = 0..(next_id - 1) \cup {next_id}
      BY <1>3
    <3>3. {m.id : m \in Sent'} = {m.id : m \in Sent} \cup {next_id}
      BY <1>4, <1>11
    <3> QED BY <3>1, <3>2, <3>3
  <2>2. next_id' - 1 = next_id
    BY <1>1, <1>3
  <2>3. Cardinality(Queued') + Len(delivered') + Cardinality(dropped') = next_id'
    <3>1. Cardinality(Queued) + Len(delivered) + Cardinality(dropped) = next_id
      BY DEF RouterInv, MessagesAccounted
    <3>2. Len(delivered) \in Nat /\ Cardinality(Queued) \in Nat /\ Cardinality(dropped) \in Nat
      BY FS_CardinalityType DEF RouterInv, RouterShape
    <3>3. PICK a \in Nat, b \in Nat : a = Cardinality(Queued \ out) /\ b = Cardinality(dropped \cup out)
      BY <1>13
    <3>4. /\ a + b = Cardinality(Queued) + Cardinality(dropped) /\ Cardinality(Queued') = a + 1
          /\ Cardinality(dropped') = b /\ delivered' = delivered /\ next_id' = next_id + 1
      BY <1>1, <1>13, <1>14, <3>3
    <3> QED BY <1>3, <3>1, <3>2, <3>4
  <2>4. ASSUME NEW s \in Shards PROVE InOrder(queues'[s])
    <3>1. CASE s = to
      <4>1. /\ DOMAIN Append(kept, msg) = 1..(Len(kept) + 1) /\ Len(kept) \in Nat
            /\ Append(kept, msg)[Len(kept) + 1] = msg
            /\ \A i \in 1..Len(kept) : Append(kept, msg)[i] = kept[i]
            /\ DOMAIN kept = 1..Len(kept)
        BY <1>2, <1>4
      <4>2. \A i \in 1..Len(kept) : kept[i] \in Range(kept)
        BY <4>1 DEF Range
      <4>3. \A i \in 1..Len(kept) : kept[i].id < msg.id
        BY <1>2, <1>3, <1>4, <1>6, <4>2
      <4>4. ASSUME NEW i \in 1..(Len(kept) + 1), NEW j \in 1..(Len(kept) + 1), i < j
            PROVE  Append(kept, msg)[i].id < Append(kept, msg)[j].id
        <5>1. i \in 1..Len(kept)
          BY <4>1, <4>4
        <5>2. CASE j = Len(kept) + 1
          BY <4>1, <4>3, <5>1, <5>2
        <5>3. CASE j # Len(kept) + 1
          <6>1. j \in 1..Len(kept)
            BY <4>1, <5>3
          <6> QED BY <1>2, <4>1, <4>4, <5>1, <6>1 DEF InOrder
        <5> QED BY <5>2, <5>3
      <4> QED BY <1>8, <3>1, <4>1, <4>4 DEF InOrder
    <3>2. CASE s # to
      BY <1>8, <3>2 DEF RouterInv, MessagesAccounted, InOrder
    <3> QED BY <3>1, <3>2
  <2> QED BY <2>1, <2>2, <2>3, <2>4 DEF MessagesAccounted, InOrder, Sent
<1>19. FreshestSurvive'
  <2>1. ASSUME NEW m \in Queued', NEW d \in dropped', m.to_shard = d.to_shard
        PROVE  d.id < m.id
    <3>1. CASE m = msg
      BY <1>1, <1>3, <1>4, <1>6, <3>1
    <3>2. CASE m # msg
      <4>1. m \in Queued \ out
        BY <1>10, <3>2
      <4>2. CASE d \in dropped
        BY <2>1, <4>1, <4>2 DEF RouterInv, FreshestSurvive
      <4>3. CASE d \in out
        <5>1. d.to_shard = to
          BY <1>2, <1>6, <1>9, <4>3
        <5>2. m \in Range(q)
          BY <1>9, <2>1, <4>1, <5>1
        <5> QED BY <1>2, <4>1, <4>3, <5>2
      <4> QED BY <1>1, <4>2, <4>3
    <3> QED BY <3>1, <3>2
  <2>2. ASSUME NEW m \in Queued' \cup dropped', m.id \notin pending_receipts',
               NEW id \in pending_receipts'
        PROVE  m.id < id
    <3>1. m # msg
      BY <1>1, <1>4, <2>2
    <3>2. m \in Queued \cup dropped /\ m.id \in Nat /\ m.id < next_id
      BY <1>1, <1>3, <1>6, <1>10, <3>1
    <3>3. CASE m.id \in pending_receipts
      BY <1>15, <2>2, <3>3
    <3>4. CASE m.id \notin pending_receipts
      BY <1>15, <3>2, <3>4 DEF RouterInv, FreshestSurvive
    <3> QED BY <3>3, <3>4
  <2> QED BY <1>15, <2>1, <2>2 DEF FreshestSurvive
<1> QED BY <1>16, <1>17, <1>18, <1>19 DEF RouterInv

\* A drain moves the messages of a queue to the delivered ones.
LEMMA DrainMoves ==
  ASSUME RouterInv, NEW shard \in Shards, DrainForShard(shard)
  PROVE  /\ Queued' = Queued \ Range(queues[shard])
         /\ Range(delivered') = Range(delivered) \cup Range(queues[shard])
         /\ Sent' = Sent /\ dropped' = dropped /\ next_id' = next_id
         /\ queues' \in [Shards -> Seq(Message)] /\ delivered' \in Seq(Message)
         /\ queues'[shard] = <<>>
         /\ \A s \in Shards : s # shard => queues'[s] = queues[s]
         /\ Range(queues[shard]) \subseteq Queued
         /\ IsFiniteSet(Queued')
         /\ Cardinality(Queued') + Len(delivered') = Cardinality(Queued) + Len(delivered)
<1> DEFINE q == queues[shard]
<1>1. /\ q \in Seq(Message) /\ InOrder(q) /\ delivered \in Seq(Message)
      /\ queues \in [Shards -> Seq(Message)]
  BY DEF RouterInv, RouterShape, MessagesAccounted, InOrder
<1>2. PICK order \in Drained(shard) : delivered' = delivered \o order
  BY DEF DrainForShard
<1>3. order \in [DOMAIN q -> Range(q)] /\ Range(order) = Range(q)
  BY <1>2 DEF Drained
<1>4. /\ DOMAIN q = 1..Len(q) /\ Len(q) \in Nat /\ Range(q) \subseteq Message
      /\ Len(delivered) \in Nat
  BY <1>1, SeqFacts
<1>5. /\ queues' = [queues EXCEPT ![shard] = <<>>] /\ dropped' = dropped
      /\ next_id' = next_id
  BY DEF DrainForShard
<1> HIDE DEF q
<1>6. order \in Seq(Message) /\ Len(order) = Len(q)
  BY <1>3, <1>4
<1>7. /\ delivered' \in Seq(Message) /\ Len(delivered') = Len(delivered) + Len(q)
      /\ Range(delivered') = Range(delivered) \cup Range(q)
  BY <1>1, <1>2, <1>3, <1>6, RangeOfConcat, ZenonT(30)
<1>8. /\ queues' \in [Shards -> Seq(Message)] /\ queues'[shard] = <<>>
      /\ \A s \in Shards : s # shard => queues'[s] = queues[s]
  BY <1>1, <1>5
<1>9. Range(q) \subseteq Queued
  BY DEF Queued, q
<1>10. Queued' = Queued \ Range(q)
  <2>1. \A m : m \in Queued' <=> \E s \in Shards : m \in Range(queues'[s])
    BY DEF Queued
  <2>2. \A m : m \in Queued <=> \E s \in Shards : m \in Range(queues[s])
    BY DEF Queued
  <2>3. \A s \in Shards : \A m \in Range(queues[s]) : m.to_shard = s
    BY DEF RouterInv, OnePlace
  <2>4. Range(queues'[shard]) = {}
    BY <1>8, RangeOfEmpty
  <2>5. ASSUME NEW m \in Queued' PROVE m \in Queued \ Range(q)
    <3>1. PICK s \in Shards : m \in Range(queues'[s])
      BY <2>1
    <3>2. s # shard
      BY <2>4, <3>1
    <3> QED BY <1>8, <2>2, <2>3, <3>1, <3>2 DEF q
  <2>6. ASSUME NEW m \in Queued \ Range(q) PROVE m \in Queued'
    BY <1>8, <2>1, <2>2, <2>6 DEF q
  <2> QED BY <2>5, <2>6
<1>11. Sent' = Sent
  BY <1>5, <1>7, <1>9, <1>10 DEF Sent
<1>12. /\ IsFiniteSet(Queued')
       /\ Cardinality(Queued') + Len(delivered') = Cardinality(Queued) + Len(delivered)
  <2>1. IsFiniteSet(Range(q)) /\ Cardinality(Range(q)) = Len(q)
    BY <1>1, InOrderCount
  <2>2. IsFiniteSet(Queued) /\ Cardinality(Queued) \in Nat
    BY FS_CardinalityType DEF RouterInv, RouterShape
  <2>3. /\ IsFiniteSet(Queued \ Range(q))
        /\ Cardinality(Queued \ Range(q))
             = Cardinality(Queued) - Cardinality(Queued \cap Range(q))
    BY <2>1, <2>2, FS_Difference
  <2>4. Queued \cap Range(q) = Range(q)
    BY <1>9
  <2>5. Cardinality(Queued') = Cardinality(Queued) - Len(q) /\ IsFiniteSet(Queued')
    BY <1>10, <2>1, <2>3, <2>4, Zenon
  <2> QED BY <1>4, <1>7, <2>2, <2>5
<1> QED BY <1>5, <1>7, <1>8, <1>9, <1>10, <1>11, <1>12 DEF q

\* A drain that acknowledges all of its messages or none.
LEMMA DrainKeeps ==
  ASSUME RouterInv, NEW shard \in Shards, DrainForShard(shard),
         \/ pending_receipts' = pending_receipts
         \/ pending_receipts' = pending_receipts \ {m.id : m \in Range(queues[shard])}
  PROVE  RouterInv'
<1> DEFINE q == queues[shard]
<1>1. /\ Queued' = Queued \ Range(q)
      /\ Range(delivered') = Range(delivered) \cup Range(q)
      /\ Sent' = Sent /\ dropped' = dropped /\ next_id' = next_id
      /\ queues' \in [Shards -> Seq(Message)] /\ delivered' \in Seq(Message)
      /\ queues'[shard] = <<>>
      /\ \A s \in Shards : s # shard => queues'[s] = queues[s]
      /\ Range(q) \subseteq Queued
      /\ IsFiniteSet(Queued')
      /\ Cardinality(Queued') + Len(delivered') = Cardinality(Queued) + Len(delivered)
  BY DrainMoves
<1>2. pending_receipts' \subseteq pending_receipts
  OBVIOUS
<1>3. /\ IsFiniteSet(pending_receipts')
      /\ Cardinality(pending_receipts') <= MAX_PENDING_RECEIPTS
  <2>1. /\ IsFiniteSet(pending_receipts') /\ IsFiniteSet(pending_receipts)
        /\ Cardinality(pending_receipts') <= Cardinality(pending_receipts)
        /\ Cardinality(pending_receipts) <= MAX_PENDING_RECEIPTS
    BY <1>2, FS_Subset DEF RouterInv, RouterShape, FreshestSurvive
  <2>2. Cardinality(pending_receipts') \in Nat /\ Cardinality(pending_receipts) \in Nat
    BY <2>1, FS_CardinalityType
  <2> QED BY <2>1, <2>2, RouterAssumption
<1>4. /\ Queued \subseteq Sent /\ dropped \subseteq Sent
      /\ \A m \in Sent : m.id \in Nat /\ m.id < next_id
  BY SentIds
<1>5. RouterShape'
  BY <1>1, <1>2, <1>3 DEF RouterInv, RouterShape
<1>6. OnePlace'
  <2>1. ASSUME NEW s \in Shards, NEW m \in Range(queues'[s]) PROVE m.to_shard = s
    BY <1>1, <2>1, RangeOfEmpty DEF RouterInv, OnePlace
  <2>2. Queued' \cap Range(delivered') = {}
    BY <1>1 DEF RouterInv, OnePlace
  <2>3. dropped' \cap (Queued' \cup Range(delivered')) = {}
    BY <1>1 DEF RouterInv, OnePlace
  <2>4. \A m, n \in Sent' : m.id = n.id => m = n
    BY <1>1 DEF RouterInv, OnePlace
  <2> QED BY <2>1, <2>2, <2>3, <2>4 DEF OnePlace
<1>7. MessagesAccounted'
  <2>1. {m.id : m \in Sent'} = 0..(next_id' - 1)
    BY <1>1 DEF RouterInv, MessagesAccounted, Sent
  <2>2. Cardinality(Queued') + Len(delivered') + Cardinality(dropped') = next_id'
    BY <1>1 DEF RouterInv, MessagesAccounted
  <2>3. ASSUME NEW s \in Shards PROVE InOrder(queues'[s])
    <3>1. InOrder(<<>>)
      BY DEF InOrder
    <3> QED BY <1>1, <3>1 DEF RouterInv, MessagesAccounted, InOrder
  <2> QED BY <2>1, <2>2, <2>3 DEF MessagesAccounted, InOrder, Sent
<1>8. FreshestSurvive'
  <2>1. \A m \in Queued', d \in dropped' : m.to_shard = d.to_shard => d.id < m.id
    BY <1>1 DEF RouterInv, FreshestSurvive
  <2>2. ASSUME NEW m \in Queued' \cup dropped', m.id \notin pending_receipts',
               NEW id \in pending_receipts'
        PROVE  m.id < id
    <3>1. m \in Queued \cup dropped /\ m \notin Range(q) /\ m \in Sent
      BY <1>1, <1>4 DEF RouterInv, OnePlace
    <3>2. m.id \notin {n.id : n \in Range(q)}
      BY <1>1, <1>4, <3>1 DEF RouterInv, OnePlace
    <3>3. m.id \notin pending_receipts
      BY <2>2, <3>2
    <3> QED BY <1>2, <3>1, <3>3 DEF RouterInv, FreshestSurvive
  <2> QED BY <1>3, <2>1, <2>2 DEF FreshestSurvive
<1> QED BY <1>5, <1>6, <1>7, <1>8 DEF RouterInv

\* A receipt, first, late or repeated, concerns a delivered message only.
LEMMA AcknowledgeKeeps ==
  ASSUME RouterInv, NEW id, Acknowledge(id)
  PROVE  RouterInv'
<1>1. /\ pending_receipts' = pending_receipts \ {id}
      /\ UNCHANGED <<queues, next_id, delivered, dropped>>
  BY DEF Acknowledge
<1>2. Queued' = Queued /\ Sent' = Sent
  BY <1>1 DEF Queued, Sent
<1>3. PICK n \in Range(delivered) : n.id = id
  BY DEF Acknowledge
<1>4. /\ IsFiniteSet(pending_receipts')
      /\ Cardinality(pending_receipts') <= MAX_PENDING_RECEIPTS
  <2>1. pending_receipts' \subseteq pending_receipts
    BY <1>1
  <2>2. /\ IsFiniteSet(pending_receipts') /\ IsFiniteSet(pending_receipts)
        /\ Cardinality(pending_receipts') <= Cardinality(pending_receipts)
        /\ Cardinality(pending_receipts) <= MAX_PENDING_RECEIPTS
    BY <2>1, FS_Subset DEF RouterInv, RouterShape, FreshestSurvive
  <2>3. Cardinality(pending_receipts') \in Nat /\ Cardinality(pending_receipts) \in Nat
    BY <2>2, FS_CardinalityType
  <2> QED BY <2>2, <2>3, RouterAssumption
<1>5. RouterShape'
  BY <1>1, <1>2, <1>4 DEF RouterInv, RouterShape
<1>6. OnePlace'
  BY <1>1, <1>2 DEF RouterInv, OnePlace
<1>7. MessagesAccounted'
  BY <1>1, <1>2 DEF RouterInv, MessagesAccounted
<1>8. FreshestSurvive'
  <2>1. ASSUME NEW m \in Queued \cup dropped PROVE m.id # id
    BY <1>3 DEF RouterInv, OnePlace, Sent
  <2> QED BY <1>1, <1>2, <1>4, <2>1 DEF RouterInv, FreshestSurvive
<1> QED BY <1>5, <1>6, <1>7, <1>8 DEF RouterInv

-----------------------------------------------------------------------------
\* The router's queues, receipts and histories stay consistent.
THEOREM RouterInvariant == RouterSpec => []RouterInv
<1>1. RouterInv /\ [RouterNext]_routerVars => RouterInv'
  <2> SUFFICES ASSUME RouterInv, [RouterNext]_routerVars PROVE RouterInv'
    OBVIOUS
  <2>1. CASE UNCHANGED routerVars
    BY <2>1 DEF routerVars, RouterInv, RouterShape, OnePlace, MessagesAccounted,
                FreshestSurvive, Queued, Sent
  <2>2. CASE \E to \in Shards, energy \in MessageEnergies : Send(to, energy)
    BY <2>2, SendKeeps
  <2>3. CASE ExecuteBlockEnd
    BY <2>3, DrainKeeps, RouterAssumption DEF ExecuteBlockEnd
  <2>4. CASE \E shard \in Shards : DrainShard(shard)
    BY <2>4, DrainKeeps DEF DrainShard
  <2>5. CASE \E id \in 0..(MaxId - 1) : Acknowledge(id)
    BY <2>5, AcknowledgeKeeps
  <2> QED BY <2>1, <2>2, <2>3, <2>4, <2>5 DEF RouterNext
<1> QED BY <1>1, RouterInitial, PTL DEF RouterSpec

\* Every message sent is queued, drained or dropped, and only one of these and
\* once (send, drain_for_shard), and every queue is in the order of sending.
THEOREM MessagesAccountedHolds == RouterSpec => []MessagesAccounted
<1>1. RouterInv => MessagesAccounted
  BY DEF RouterInv
<1> QED BY <1>1, RouterInvariant, PTL

\* Both caps give up the oldest, although they evict independently and
\* receipts come late, twice or never (send, acknowledge).
THEOREM FreshestSurviveHolds == RouterSpec => []FreshestSurvive
<1>1. RouterInv => FreshestSurvive
  BY DEF RouterInv
<1> QED BY <1>1, RouterInvariant, PTL

-----------------------------------------------------------------------------
(* Block sync and snapshot sync.                                           *)

Ranges == {r \in [from : Nat, to : Nat] : r.from <= r.to}

Asks == [peer : Peers, kind : {"tip", "meta", "chunk"}, height : Nat, chunk : Nat]

\* Nobody reports a height the peers do not have.
HeightsInv ==
  /\ height \in Nat /\ tip \in Nat /\ height <= tip /\ tip <= MaxTip
  /\ pending_blocks \subseteq 1..tip
  /\ sync_blocks \in Seq(SUBSET (1..tip)) /\ tips \in Seq(0..tip)
  /\ target_height \in 0..tip
  /\ \A t \in peer_tips : t.height \in 0..tip
  /\ \A a \in answers : a.kind = "tip" => a.height \in 0..tip

ChannelsInv ==
  /\ requests \in Seq(Ranges) /\ failures \in Nat
  /\ phase \in {"none", "discovering", "downloading"}
  /\ asks \subseteq Asks

\* The download has one snapshot at a time, and every chunk it took is a chunk
\* of that snapshot.
DownloadInv ==
  /\ snapshot_meta = {} \/ \E meta : snapshot_meta = {meta}
  /\ snapshot_meta = {} => received_chunks = NoChunks
  /\ \A meta \in snapshot_meta : \A i \in DOMAIN received_chunks :
       received_chunks[i] = Origin(meta.peer, i)
  /\ \E p : applied \subseteq {p}

SyncInv == HeightsInv /\ ChannelsInv /\ DownloadInv /\ FlagHasCause

-----------------------------------------------------------------------------
\* A channel without one of its messages.
LEMMA WithoutType ==
  ASSUME NEW S, NEW s \in Seq(S), NEW i \in DOMAIN s
  PROVE  Without(s, i) \in Seq(S)
<1>1. Len(s) \in Nat /\ DOMAIN s = 1..Len(s) /\ \A j \in 1..Len(s) : s[j] \in S
  BY LenProperties
<1>2. i \in Nat /\ i >= 1 /\ i <= Len(s)
  BY <1>1
<1>3. SubSeq(s, 1, i - 1) \in Seq(S)
  <2>1. \A j \in 1..(i - 1) : s[j] \in S
    BY <1>1, <1>2
  <2> QED BY <1>2, <2>1, SubSeqProperties
<1>4. SubSeq(s, i + 1, Len(s)) \in Seq(S)
  <2>1. \A j \in (i + 1)..Len(s) : s[j] \in S
    BY <1>1, <1>2
  <2> QED BY <1>1, <1>2, <2>1, SubSeqProperties
<1> QED BY <1>3, <1>4, ConcatProperties DEF Without

\* A request that is not empty stays so within the batch.
LEMMA RequestType ==
  ASSUME requests \in Seq(Ranges), NEW from \in Nat, NEW to \in Nat, from <= to,
         Request(from, to)
  PROVE  requests' \in Seq(Ranges) /\ requests' # <<>>
<1>1. Capped(from, to) \in Ranges
  BY SyncAssumption DEF Capped, Ranges
<1> QED BY <1>1, AppendProperties DEF Request

\* What extends the chain ends at or below the tip.
LEMMA ReachBounded ==
  ASSUME NEW h \in Nat, h <= tip, tip \in Nat, tip <= MaxTip,
         NEW blocks, blocks \subseteq 1..tip
  PROVE  Reach(h, blocks) \in h..tip
<1> DEFINE S == {n \in h..MaxTip : (h + 1)..n \subseteq blocks}
<1>1. h \in S
  BY SyncAssumption
<1>2. S \in SUBSET Nat /\ IsFiniteSet(S)
  <2>1. IsFiniteSet(h..MaxTip)
    BY SyncAssumption, FS_Interval
  <2>2. S \subseteq h..MaxTip
    OBVIOUS
  <2>3. h..MaxTip \subseteq Nat
    BY SyncAssumption
  <2> QED BY <2>1, <2>2, <2>3, FS_Subset
<1>3. Reach(h, blocks) \in S
  BY <1>1, <1>2, MaxIsGreatest DEF Reach
<1>4. ASSUME NEW n \in S PROVE n \in h..tip
  <2>1. n \in h..MaxTip /\ (h + 1)..n \subseteq blocks /\ n \in Nat
    BY SyncAssumption
  <2>2. CASE n = h
    BY <2>2
  <2>3. CASE n # h
    <3>1. n \in (h + 1)..n
      BY <2>1, <2>3
    <3>2. n \in 1..tip
      BY <2>1, <3>1
    <3> QED BY <2>1, <3>2
  <2> QED BY <2>2, <2>3
<1> QED BY <1>3, <1>4

\* What the manager broadcasts is a request.
LEMMA BroadcastType ==
  ASSUME NEW kind \in {"tip", "meta", "chunk"}, NEW h \in Nat, NEW chunks \in SUBSET Nat
  PROVE  Broadcast(kind, h, chunks) \subseteq Asks
BY DEF Broadcast, Asks

-----------------------------------------------------------------------------
\* A node that joins satisfies the invariant.
LEMMA SyncInitial == Init => SyncInv
<1> SUFFICES ASSUME Init PROVE SyncInv
  OBVIOUS
<1>1. HeightsInv
  BY SyncAssumption, EmptySeq DEF Init, ManagerInit, HeightsInv
<1>2. ChannelsInv
  BY EmptySeq DEF Init, ManagerInit, ChannelsInv
<1>3. DownloadInv
  BY DEF Init, ManagerInit, DownloadInv
<1>4. FlagHasCause
  BY DEF Init, FlagHasCause, FlagCleared
<1> QED BY <1>1, <1>2, <1>3, <1>4 DEF SyncInv

\* The chain grows, and the node's part in it.
LEMMA TipGrows ==
  ASSUME HeightsInv, tip' \in Nat, tip <= tip', tip' <= MaxTip,
         height' \in Nat, height' <= tip',
         UNCHANGED <<pending_blocks, sync_blocks, tips, target_height, peer_tips, answers>>
  PROVE  HeightsInv'
<1>1. 1..tip \subseteq 1..tip' /\ 0..tip \subseteq 0..tip'
  BY DEF HeightsInv
<1>2. sync_blocks \in Seq(SUBSET (1..tip'))
  <2>1. SUBSET (1..tip) \subseteq SUBSET (1..tip')
    BY <1>1
  <2> QED BY <2>1, SeqMonotonic DEF HeightsInv
<1>3. tips \in Seq(0..tip')
  BY <1>1, SeqMonotonic DEF HeightsInv
<1> QED BY <1>1, <1>2, <1>3 DEF HeightsInv

\* A state sync starts.
LEMMA StartKeeps ==
  ASSUME SyncInv, StartStateSync, UNCHANGED <<height, tip>>
  PROVE  /\ target_height' \in 0..tip /\ peer_tips' = {} /\ answers' = answers
         /\ phase' = "discovering" /\ asks' \subseteq Asks /\ DownloadInv'
<1>1. /\ target_height' = 0 /\ peer_tips' = {} /\ answers' = answers
      /\ phase' = "discovering" /\ snapshot_meta' = {} /\ received_chunks' = NoChunks
      /\ applied' = applied /\ asks' = asks \cup Broadcast("tip", 0, {0})
  BY DEF StartStateSync, ResetManager
<1>2. asks' \subseteq Asks
  BY <1>1, BroadcastType DEF SyncInv, ChannelsInv
<1>3. DownloadInv'
  BY <1>1 DEF SyncInv, DownloadInv
<1>4. 0 \in 0..tip
  BY DEF SyncInv, HeightsInv
<1> QED BY <1>1, <1>2, <1>3, <1>4

\* A state sync and a request, or either, with the flag set.
LEMMA CatchUpKeeps ==
  ASSUME SyncInv, NEW from \in Nat, NEW to \in Nat, from <= to, NEW gap,
         CatchUp(from, to, gap)
  PROVE  /\ height' = height /\ tip' = tip /\ answers' = answers
         /\ target_height' \in 0..tip /\ \A t \in peer_tips' : t.height \in 0..tip
         /\ requests' \in Seq(Ranges)
         /\ phase' \in {"none", "discovering", "downloading"} /\ asks' \subseteq Asks
         /\ DownloadInv'
         /\ requests' # <<>> \/ phase' # "none"
<1>1. CASE StartStateSync /\ UNCHANGED <<height, tip, requests>>
  BY <1>1, StartKeeps DEF SyncInv, ChannelsInv
<1>2. CASE Request(from, to) /\ UNCHANGED stateSyncVars
  <2>1. requests' \in Seq(Ranges) /\ requests' # <<>>
    BY <1>2, RequestType DEF SyncInv, ChannelsInv
  <2> QED BY <1>2, <2>1
          DEF SyncInv, HeightsInv, ChannelsInv, DownloadInv, stateSyncVars, managerVars
<1> QED BY <1>1, <1>2 DEF CatchUp

\* One lemma per branch of the main loop and of the network task.
LEMMA GossipAheadKeeps ==
  ASSUME SyncInv, NEW n \in 1..tip, GossipAhead(n)
  PROVE  SyncInv'
<1>1. /\ n \in Nat /\ n >= height + 2 /\ n <= tip /\ height \in Nat /\ tip \in Nat
      /\ Queue(n)
      /\ UNCHANGED <<sync_blocks, tips, proposal, keys, unverified, probes, failures>>
  BY DEF GossipAhead, SyncInv, HeightsInv
<1>2. pending_blocks' \subseteq 1..tip
  BY <1>1 DEF Queue, SyncInv, HeightsInv
<1>3. CASE sync_in_flight
  <2>1. UNCHANGED <<stateSyncVars, requests, sync_in_flight>>
    BY <1>3 DEF GossipAhead
  <2> QED BY <1>1, <1>2, <2>1
          DEF SyncInv, HeightsInv, ChannelsInv, DownloadInv, FlagHasCause, FlagCleared,
              stateSyncVars, managerVars
<1>4. CASE ~sync_in_flight
  <2>1. /\ StartOrKeep(n - height > GossipGap /\ phase = "none")
        /\ Request(height + 1, n - 1)
    BY <1>4 DEF GossipAhead
  <2>2. requests' \in Seq(Ranges) /\ requests' # <<>>
    <3>1. height + 1 \in Nat /\ n - 1 \in Nat /\ height + 1 <= n - 1
      BY <1>1
    <3> QED BY <2>1, <3>1, RequestType DEF SyncInv, ChannelsInv
  <2>3. \/ StartStateSync /\ UNCHANGED <<height, tip>>
        \/ UNCHANGED stateSyncVars
    BY <2>1 DEF StartOrKeep
  <2>4. CASE UNCHANGED stateSyncVars
    BY <1>1, <1>2, <2>2, <2>4
       DEF SyncInv, HeightsInv, ChannelsInv, DownloadInv, FlagHasCause, FlagCleared,
           stateSyncVars, managerVars
  <2>5. CASE StartStateSync /\ UNCHANGED <<height, tip>>
    <3>1. /\ target_height' \in 0..tip /\ peer_tips' = {} /\ answers' = answers
          /\ phase' = "discovering" /\ asks' \subseteq Asks /\ DownloadInv'
      BY <2>5, StartKeeps
    <3> QED BY <1>1, <1>2, <2>2, <2>5, <3>1
            DEF SyncInv, HeightsInv, ChannelsInv, FlagHasCause, FlagCleared
  <2> QED BY <2>3, <2>4, <2>5
<1> QED BY <1>3, <1>4

LEMMA ReceiveTipKeeps ==
  ASSUME SyncInv, ReceiveTip
  PROVE  SyncInv'
<1>1. /\ tips # <<>> /\ tips' = Tail(tips) /\ tips \in Seq(0..tip)
      /\ UNCHANGED <<pending_blocks, sync_blocks, proposal, keys, unverified, probes,
                     failures>>
  BY DEF ReceiveTip, SyncInv, HeightsInv
<1>2. tips' \in Seq(0..tip) /\ Head(tips) \in 0..tip
  BY <1>1, HeadTailProperties
<1>3. CASE Head(tips) > height /\ ~sync_in_flight
  <2>1. CatchUp(height + 1, Head(tips), Head(tips) - height)
    BY <1>3 DEF ReceiveTip
  <2>2. height + 1 \in Nat /\ Head(tips) \in Nat /\ height + 1 <= Head(tips)
    BY <1>2, <1>3 DEF SyncInv, HeightsInv
  <2>3. /\ height' = height /\ tip' = tip /\ answers' = answers
        /\ target_height' \in 0..tip /\ \A t \in peer_tips' : t.height \in 0..tip
        /\ requests' \in Seq(Ranges)
        /\ phase' \in {"none", "discovering", "downloading"} /\ asks' \subseteq Asks
        /\ DownloadInv'
        /\ requests' # <<>> \/ phase' # "none"
    BY <2>1, <2>2, CatchUpKeeps
  <2> QED BY <1>1, <1>2, <2>3
          DEF SyncInv, HeightsInv, ChannelsInv, FlagHasCause, FlagCleared
<1>4. CASE ~(Head(tips) > height /\ ~sync_in_flight)
  <2>1. UNCHANGED <<stateSyncVars, requests, sync_in_flight>>
    BY <1>4 DEF ReceiveTip
  <2> QED BY <1>1, <1>2, <2>1
          DEF SyncInv, HeightsInv, ChannelsInv, DownloadInv, FlagHasCause, FlagCleared,
              stateSyncVars, managerVars
<1> QED BY <1>3, <1>4

LEMMA ConsensusMessageKeeps ==
  ASSUME SyncInv, ReceiveConsensusMessage
  PROVE  SyncInv'
<1>1. /\ CatchUp(height + 1, tip + 1, tip - height)
      /\ UNCHANGED <<pending_blocks, sync_blocks, tips, proposal, keys, unverified,
                     probes, failures>>
  BY DEF ReceiveConsensusMessage
<1>2. height + 1 \in Nat /\ tip + 1 \in Nat /\ height + 1 <= tip + 1
  BY DEF SyncInv, HeightsInv
<1>3. /\ height' = height /\ tip' = tip /\ answers' = answers
      /\ target_height' \in 0..tip /\ \A t \in peer_tips' : t.height \in 0..tip
      /\ requests' \in Seq(Ranges)
      /\ phase' \in {"none", "discovering", "downloading"} /\ asks' \subseteq Asks
      /\ DownloadInv'
      /\ requests' # <<>> \/ phase' # "none"
  BY <1>1, <1>2, CatchUpKeeps
<1> QED BY <1>1, <1>3
        DEF SyncInv, HeightsInv, ChannelsInv, FlagHasCause, FlagCleared

-----------------------------------------------------------------------------
\* The steps that leave the node's own data alone.
LEMMA ChainKeeps ==
  ASSUME SyncInv, ChainGrows \/ CommitBlock
  PROVE  SyncInv'
<1>1. /\ UNCHANGED <<managerVars, asks, answers, applied, pending_blocks, sync_in_flight,
                     requests, sync_blocks, tips, failures>>
      /\ tip' \in Nat /\ tip <= tip' /\ tip' <= MaxTip
      /\ height' \in Nat /\ height' <= tip'
  <2>1. /\ height \in Nat /\ tip \in Nat /\ height <= tip /\ tip <= MaxTip /\ MaxTip \in Nat
    BY SyncAssumption DEF SyncInv, HeightsInv
  <2>2. CASE ChainGrows
    BY <2>1, <2>2 DEF ChainGrows, loopVars
  <2>3. CASE CommitBlock
    BY <2>1, <2>3 DEF CommitBlock
  <2> QED BY <2>2, <2>3
<1>2. HeightsInv'
  BY <1>1, TipGrows DEF SyncInv, managerVars
<1>3. ChannelsInv' /\ DownloadInv' /\ FlagHasCause'
  BY <1>1 DEF SyncInv, ChannelsInv, DownloadInv, FlagHasCause, FlagCleared, managerVars
<1> QED BY <1>2, <1>3 DEF SyncInv

LEMMA LocalKeeps ==
  ASSUME SyncInv, ReceiveProposal \/ KeyAnnounce \/ GossipNext
  PROVE  SyncInv'
<1>1. /\ UNCHANGED <<stateSyncVars, pending_blocks, requests, sync_blocks, tips, failures>>
      /\ sync_in_flight' => sync_in_flight
  BY DEF ReceiveProposal, KeyAnnounce, GossipNext
<1> QED BY <1>1
        DEF SyncInv, HeightsInv, ChannelsInv, DownloadInv, FlagHasCause, FlagCleared,
            stateSyncVars, managerVars

-----------------------------------------------------------------------------
\* The network task.
LEMMA PeerConnectsKeeps ==
  ASSUME SyncInv, PeerConnects
  PROVE  SyncInv'
<1>1. /\ Request(0, 0)
      /\ UNCHANGED <<stateSyncVars, pending_blocks, sync_in_flight, sync_blocks, tips,
                     failures>>
  BY DEF PeerConnects
<1>2. requests' \in Seq(Ranges) /\ requests' # <<>>
  BY <1>1, RequestType DEF SyncInv, ChannelsInv
<1> QED BY <1>1, <1>2
        DEF SyncInv, HeightsInv, ChannelsInv, DownloadInv, FlagHasCause, FlagCleared,
            stateSyncVars, managerVars

LEMMA RespondKeeps ==
  ASSUME SyncInv, NEW i \in DOMAIN requests, Respond(i)
  PROVE  SyncInv'
<1>1. /\ requests' = Without(requests, i)
      /\ sync_blocks' = Append(sync_blocks, Served(requests[i]))
      /\ tips' = Append(tips, tip)
      /\ UNCHANGED <<stateSyncVars, pending_blocks, sync_in_flight, failures>>
  BY DEF Respond, Notify
<1>2. requests' \in Seq(Ranges)
  BY <1>1, WithoutType DEF SyncInv, ChannelsInv
<1>3. sync_blocks' \in Seq(SUBSET (1..tip)) /\ sync_blocks' # <<>>
  <2>1. Served(requests[i]) \in SUBSET (1..tip)
    BY DEF Served
  <2>2. sync_blocks \in Seq(SUBSET (1..tip))
    BY DEF SyncInv, HeightsInv
  <2> QED BY <1>1, <2>1, <2>2, AppendProperties
<1>4. tips' \in Seq(0..tip)
  <2>1. tip \in 0..tip /\ tips \in Seq(0..tip)
    BY DEF SyncInv, HeightsInv
  <2> QED BY <1>1, <2>1, AppendProperties
<1> QED BY <1>1, <1>2, <1>3, <1>4
        DEF SyncInv, HeightsInv, ChannelsInv, DownloadInv, FlagHasCause, FlagCleared,
            stateSyncVars, managerVars

LEMMA OutboundFailureKeeps ==
  ASSUME SyncInv, NEW i \in DOMAIN requests, OutboundFailure(i)
  PROVE  SyncInv'
<1>1. /\ requests' = Without(requests, i) /\ failures' = failures + 1
      /\ UNCHANGED <<stateSyncVars, pending_blocks, sync_blocks, tips>>
  BY DEF OutboundFailure
<1>2. requests' \in Seq(Ranges)
  BY <1>1, WithoutType DEF SyncInv, ChannelsInv
<1>3. failures' \in Nat /\ failures' # 0
  BY <1>1 DEF SyncInv, ChannelsInv
<1> QED BY <1>1, <1>2, <1>3
        DEF SyncInv, HeightsInv, ChannelsInv, DownloadInv, FlagHasCause,
            stateSyncVars, managerVars

-----------------------------------------------------------------------------
\* Synced blocks are applied as far as they reach, and what is asked for next
\* lies between the node and the lowest block left in the queue.
LEMMA ReceiveSyncBlocksKeeps ==
  ASSUME SyncInv, ReceiveSyncBlocks
  PROVE  SyncInv'
<1> DEFINE blocks == Head(sync_blocks)
           after  == IF keys THEN Reach(height, blocks) ELSE height
           queued == pending_blocks \cup {n \in blocks : n > after}
           final  == Reach(after, queued)
           left   == queued \ ((after + 1)..final)
           more   == left # {} /\ Min(left) > final + 1
<1>1. /\ sync_blocks # <<>> /\ sync_blocks' = Tail(sync_blocks)
      /\ height' = IF blocks = {} THEN height ELSE final
      /\ pending_blocks' = IF blocks = {} THEN pending_blocks ELSE left
      /\ sync_in_flight' = (blocks # {} /\ more)
      /\ IF blocks # {} /\ more THEN Request(final + 1, Min(left) - 1)
         ELSE UNCHANGED requests
      /\ UNCHANGED <<tip, managerVars, asks, answers, applied, tips, failures>>
  BY DEF ReceiveSyncBlocks
<1>2. /\ height \in Nat /\ tip \in Nat /\ height <= tip /\ tip <= MaxTip
      /\ pending_blocks \subseteq 1..tip /\ sync_blocks \in Seq(SUBSET (1..tip))
      /\ requests \in Seq(Ranges)
  BY DEF SyncInv, HeightsInv, ChannelsInv
<1>3. sync_blocks' \in Seq(SUBSET (1..tip)) /\ blocks \in SUBSET (1..tip)
  BY <1>1, <1>2, HeadTailProperties
<1>4. after \in Nat /\ after <= tip
  <2>1. Reach(height, blocks) \in height..tip
    BY <1>2, <1>3, ReachBounded
  <2> QED BY <1>2, <2>1
<1>5. queued \subseteq 1..tip
  BY <1>2, <1>3
<1> HIDE DEF after
<1>6. final \in after..tip
  BY <1>2, <1>4, <1>5, ReachBounded
<1>7. final \in Nat /\ final <= tip
  BY <1>2, <1>4, <1>6
<1>8. left \subseteq 1..tip
  BY <1>5
<1> HIDE DEF queued
<1>9. more => Min(left) \in Nat /\ Min(left) > final + 1
  <2> SUFFICES ASSUME more PROVE Min(left) \in Nat
    OBVIOUS
  <2>1. IsFiniteSet(left)
    <3>1. IsFiniteSet(1..tip)
      BY <1>2, FS_Interval
    <3> QED BY <1>8, <3>1, FS_Subset
  <2>2. left \in SUBSET Nat
    BY <1>2, <1>8
  <2>3. Min(left) \in left
    BY <2>1, <2>2, MinIsLeast
  <2> QED BY <2>2, <2>3
<1> HIDE DEF final, left
<1>10. requests' \in Seq(Ranges) /\ (sync_in_flight' => requests' # <<>>)
  <2>1. CASE blocks # {} /\ more
    <3>1. final + 1 \in Nat /\ Min(left) - 1 \in Nat /\ final + 1 <= Min(left) - 1
      BY <1>7, <1>9, <2>1
    <3>2. Request(final + 1, Min(left) - 1)
      BY <1>1, <2>1
    <3> QED BY <1>2, <3>1, <3>2, RequestType
  <2>2. CASE ~(blocks # {} /\ more)
    BY <1>1, <1>2, <2>2
  <2> QED BY <2>1, <2>2
<1>11. /\ height' \in Nat /\ height' <= tip
       /\ pending_blocks' \subseteq 1..tip
  <2>1. CASE blocks = {}
    BY <1>1, <1>2, <2>1
  <2>2. CASE blocks # {}
    BY <1>1, <1>7, <1>8, <2>2
  <2> QED BY <2>1, <2>2
<1>12. UNCHANGED <<tip, managerVars, asks, answers, applied, tips, failures>>
  BY <1>1
<1> QED BY <1>3, <1>10, <1>11, <1>12
        DEF SyncInv, HeightsInv, ChannelsInv, DownloadInv, FlagHasCause, FlagCleared,
            managerVars

-----------------------------------------------------------------------------
\* Snapshot sync beside it.  These facts are what each of its messages keeps.
LEMMA PeerAnswersKeeps ==
  ASSUME SyncInv, NEW ask \in asks, PeerAnswers(ask), UNCHANGED loopVars
  PROVE  SyncInv'
<1>1. /\ asks' = asks \ {ask} /\ answers' = answers \cup Answer(ask)
      /\ UNCHANGED <<height, tip, managerVars, applied>>
  BY DEF PeerAnswers
<1>2. ask \in Asks /\ tip \in Nat
  BY DEF SyncInv, ChannelsInv, HeightsInv
<1>3. ASSUME NEW a \in Answer(ask), a.kind = "tip"
      PROVE  a.height \in 0..tip
  <2>1. CASE ask.kind = "tip"
    <3>1. a = [ask EXCEPT !.height = tip]
      BY <1>3, <2>1 DEF Answer
    <3>2. a.height = tip
      BY <1>2, <3>1 DEF Asks
    <3> QED BY <1>2, <3>2
  <2>2. CASE ask.kind = "meta"
    <3>1. a = ask
      BY <1>3, <2>2 DEF Answer
    <3> QED BY <1>3, <2>2, <3>1
  <2>3. CASE ask.kind = "chunk"
    <3>1. a = ask
      BY <1>3, <2>3 DEF Answer
    <3> QED BY <1>3, <2>3, <3>1
  <2> QED BY <1>2, <2>1, <2>2, <2>3 DEF Asks
<1>4. HeightsInv'
  BY <1>1, <1>3 DEF SyncInv, HeightsInv, managerVars, loopVars
<1> QED BY <1>1, <1>4
        DEF SyncInv, ChannelsInv, DownloadInv, FlagHasCause, FlagCleared,
            managerVars, loopVars

\* One lemma per answer to the snapshot manager.
LEMMA TipResponseKeeps ==
  ASSUME SyncInv, NEW answer \in answers, OnTipResponse(answer), UNCHANGED loopVars
  PROVE  SyncInv'
<1>1. /\ answer.kind = "tip" /\ answers' = answers \ {answer}
      /\ UNCHANGED <<height, tip, snapshot_meta, received_chunks, applied>>
  BY DEF OnTipResponse, Deliver
<1>2. /\ \A t \in peer_tips' : t.height \in 0..tip
      /\ target_height' \in 0..tip /\ asks' \subseteq Asks
      /\ phase' \in {"none", "discovering", "downloading"}
      /\ phase # "none" => phase' # "none"
  <2>1. CASE /\ phase = "discovering" /\ peer_tips' = peer_tips \cup {answer}
             /\ \E best \in MostReported(peer_tips') :
                  IF Votes(peer_tips', best) >= MIN_TIP_AGREEMENT /\ best > local_height
                  THEN /\ target_height' = best
                       /\ phase' = "downloading"
                       /\ asks' = asks \cup Broadcast("meta", best, {0})
                  ELSE UNCHANGED <<target_height, phase, asks>>
    <3>1. \A t \in peer_tips' : t.height \in 0..tip
      BY <1>1, <2>1 DEF SyncInv, HeightsInv
    <3>2. PICK best \in MostReported(peer_tips') :
            \/ /\ target_height' = best /\ phase' = "downloading"
               /\ asks' = asks \cup Broadcast("meta", best, {0})
            \/ UNCHANGED <<target_height, phase, asks>>
      BY <2>1
    <3>3. best \in 0..tip /\ best \in Nat
      BY <3>1 DEF MostReported, SyncInv, HeightsInv
    <3>4. Broadcast("meta", best, {0}) \subseteq Asks
      BY <3>3, BroadcastType
    <3> QED BY <2>1, <3>1, <3>2, <3>3, <3>4 DEF SyncInv, HeightsInv, ChannelsInv
  <2>2. CASE UNCHANGED <<peer_tips, target_height, phase, asks>>
    BY <2>2 DEF SyncInv, HeightsInv, ChannelsInv
  <2> QED BY <2>1, <2>2 DEF OnTipResponse
<1> QED BY <1>1, <1>2
        DEF SyncInv, HeightsInv, ChannelsInv, DownloadInv, FlagHasCause, FlagCleared,
            loopVars

LEMMA MetadataKeeps ==
  ASSUME SyncInv, NEW answer \in answers, OnSnapshotMetadata(answer), UNCHANGED loopVars
  PROVE  SyncInv'
<1>1. /\ answers' = answers \ {answer}
      /\ UNCHANGED <<height, tip, peer_tips, target_height, applied>>
  BY DEF OnSnapshotMetadata, Deliver
<1>2. CASE UNCHANGED <<snapshot_meta, received_chunks, pending_requests, asks, phase>>
  BY <1>1, <1>2
     DEF SyncInv, HeightsInv, ChannelsInv, DownloadInv, FlagHasCause, FlagCleared, loopVars
<1>3. CASE /\ answer.height = target_height /\ phase' = "downloading"
           /\ snapshot_meta' = {[height |-> answer.height, peer |-> answer.peer]}
           /\ received_chunks' = NoChunks
           /\ pending_requests' = Chunks \ DOMAIN received_chunks'
           /\ asks' = asks \cup Broadcast("chunk", answer.height, pending_requests')
  <2>1. asks' \subseteq Asks
    <3>1. answer.height \in Nat
      BY <1>3 DEF SyncInv, HeightsInv
    <3>2. pending_requests' \in SUBSET Nat
      BY <1>3, StateSyncAssumption DEF Chunks
    <3> QED BY <1>3, <3>1, <3>2, BroadcastType DEF SyncInv, ChannelsInv
  <2>2. DownloadInv'
    <3>1. DOMAIN received_chunks' = {}
      BY <1>3 DEF NoChunks
    <3> QED BY <1>1, <1>3, <3>1 DEF SyncInv, DownloadInv
  <2>3. HeightsInv' /\ FlagHasCause'
    BY <1>1, <1>3 DEF SyncInv, HeightsInv, FlagHasCause, FlagCleared, loopVars
  <2>4. ChannelsInv'
    BY <1>3, <2>1 DEF SyncInv, ChannelsInv, loopVars
  <2> QED BY <2>2, <2>3, <2>4 DEF SyncInv
<1> QED BY <1>2, <1>3 DEF OnSnapshotMetadata, Restarted

LEMMA ChunkMismatchKeeps ==
  ASSUME SyncInv, NEW answer \in answers, OnChunkMismatch(answer), UNCHANGED loopVars
  PROVE  SyncInv'
<1>1. /\ answers' = answers \ {answer}
      /\ UNCHANGED <<height, tip, phase, peer_tips, target_height, snapshot_meta,
                     received_chunks, asks, applied>>
  BY DEF OnChunkMismatch, Deliver
<1> QED BY <1>1
        DEF SyncInv, HeightsInv, ChannelsInv, DownloadInv, FlagHasCause, FlagCleared, loopVars

\* A chunk that is taken is a chunk of the one snapshot that is downloaded.
LEMMA TakenChunk ==
  ASSUME DownloadInv, NEW answer, NEW meta \in snapshot_meta, Matches(answer, meta)
  PROVE  /\ snapshot_meta = {meta}
         /\ \A i \in DOMAIN WithChunk(answer) : WithChunk(answer)[i] = Origin(meta.peer, i)
<1>1. snapshot_meta = {meta}
  BY DEF DownloadInv
<1>2. \A i \in DOMAIN received_chunks : received_chunks[i] = Origin(meta.peer, i)
  BY DEF DownloadInv
<1>3. Origin(answer.peer, answer.chunk) = Origin(meta.peer, answer.chunk)
  BY DEF Matches
<1>4. ASSUME NEW i \in DOMAIN WithChunk(answer)
      PROVE  WithChunk(answer)[i] = Origin(meta.peer, i)
  <2>1. i \in DOMAIN received_chunks \cup {answer.chunk}
    BY DEF WithChunk
  <2>2. WithChunk(answer)[i] = IF i = answer.chunk THEN Origin(answer.peer, i)
                               ELSE received_chunks[i]
    BY <2>1 DEF WithChunk
  <2> QED BY <1>2, <1>3, <2>1, <2>2
<1> QED BY <1>1, <1>4

LEMMA ChunkKeeps ==
  ASSUME SyncInv, NEW answer \in answers, OnChunk(answer), UNCHANGED loopVars
  PROVE  SyncInv'
<1> DEFINE outstanding == pending_requests \ {answer.chunk}
           next == Chunks \ (DOMAIN received_chunks' \cup outstanding)
<1>1. /\ answers' = answers \ {answer} /\ received_chunks' = WithChunk(answer)
      /\ asks' = asks \cup Broadcast("chunk", target_height, next)
      /\ UNCHANGED <<height, tip, phase, peer_tips, target_height, snapshot_meta, applied>>
  BY DEF OnChunk, Deliver
<1>2. PICK meta \in snapshot_meta : Matches(answer, meta)
  BY DEF OnChunk
<1>3. /\ snapshot_meta = {meta}
      /\ \A i \in DOMAIN received_chunks' : received_chunks'[i] = Origin(meta.peer, i)
  BY <1>1, <1>2, TakenChunk DEF SyncInv
<1>4. DownloadInv'
  BY <1>1, <1>3 DEF SyncInv, DownloadInv
<1>5. asks' \subseteq Asks
  <2>1. next \in SUBSET Nat /\ target_height \in Nat
    BY StateSyncAssumption DEF Chunks, SyncInv, HeightsInv
  <2> QED BY <1>1, <2>1, BroadcastType DEF SyncInv, ChannelsInv
<1> QED BY <1>1, <1>4, <1>5
        DEF SyncInv, HeightsInv, ChannelsInv, FlagHasCause, FlagCleared, loopVars

LEMMA LastChunkKeeps ==
  ASSUME SyncInv, NEW answer \in answers, OnLastChunk(answer), sync_in_flight' = FALSE,
         UNCHANGED <<pending_blocks, requests, sync_blocks, tips, failures>>
  PROVE  SyncInv'
<1>1. /\ answers' = answers \ {answer} /\ DOMAIN WithChunk(answer) = Chunks
      /\ \/ /\ applied' = UNION {WithChunk(answer)[i] : i \in Chunks}
            /\ height' = target_height
         \/ UNCHANGED <<applied, height>>
      /\ phase' = "none"
      /\ peer_tips' = {} /\ target_height' = 0 /\ snapshot_meta' = {}
      /\ received_chunks' = NoChunks
      /\ UNCHANGED <<tip, asks>>
  BY DEF OnLastChunk, Deliver, ResetManager
<1>2. PICK meta \in snapshot_meta : Matches(answer, meta)
  BY DEF OnLastChunk
<1>3. \A i \in Chunks : WithChunk(answer)[i] = Origin(meta.peer, i)
  BY <1>1, <1>2, TakenChunk DEF SyncInv
<1>4. applied' \subseteq {meta.peer} \/ applied' = applied
  BY <1>1, <1>3 DEF Origin
<1>5. DownloadInv'
  BY <1>1, <1>4 DEF DownloadInv, SyncInv
<1>6. HeightsInv'
  BY <1>1 DEF SyncInv, HeightsInv
<1> QED BY <1>1, <1>5, <1>6 DEF SyncInv, ChannelsInv, FlagHasCause, FlagCleared

LEMMA StateSyncMessageKeeps ==
  ASSUME SyncInv, StateSyncMessage
  PROVE  SyncInv'
<1>1. ASSUME NEW ask \in asks, PeerAnswers(ask) /\ UNCHANGED loopVars
      PROVE  SyncInv'
  BY <1>1, PeerAnswersKeeps
<1>2. ASSUME NEW answer \in answers, OnTipResponse(answer) /\ UNCHANGED loopVars
      PROVE  SyncInv'
  BY <1>2, TipResponseKeeps
<1>3. ASSUME NEW answer \in answers, OnSnapshotMetadata(answer) /\ UNCHANGED loopVars
      PROVE  SyncInv'
  BY <1>3, MetadataKeeps
<1>4. ASSUME NEW answer \in answers, OnChunkMismatch(answer) /\ UNCHANGED loopVars
      PROVE  SyncInv'
  BY <1>4, ChunkMismatchKeeps
<1>5. ASSUME NEW answer \in answers, OnChunk(answer) /\ UNCHANGED loopVars
      PROVE  SyncInv'
  BY <1>5, ChunkKeeps
<1>6. ASSUME NEW answer \in answers, OnLastChunk(answer), sync_in_flight' = FALSE,
             UNCHANGED <<pending_blocks, requests, sync_blocks, tips, failures>>
      PROVE  SyncInv'
  BY <1>6, LastChunkKeeps
<1> QED BY <1>1, <1>2, <1>3, <1>4, <1>5, <1>6 DEF StateSyncMessage

-----------------------------------------------------------------------------
\* Every step keeps the invariant.
LEMMA SyncStep == SyncInv /\ [Next]_vars => SyncInv'
<1> SUFFICES ASSUME SyncInv, [Next]_vars PROVE SyncInv'
  OBVIOUS
<1>1. CASE UNCHANGED vars
  BY <1>1
     DEF SyncInv, HeightsInv, ChannelsInv, DownloadInv, FlagHasCause, FlagCleared,
         vars, loopVars, stateSyncVars, managerVars
<1>2. CASE ChainGrows \/ CommitBlock
  BY <1>2, ChainKeeps
<1>3. CASE ReceiveProposal \/ KeyAnnounce \/ GossipNext
  BY <1>3, LocalKeeps
<1>4. CASE PeerConnects
  BY <1>4, PeerConnectsKeeps
<1>5. CASE \E i \in DOMAIN requests : Respond(i) \/ OutboundFailure(i)
  BY <1>5, RespondKeeps, OutboundFailureKeeps
<1>6. CASE \E n \in 1..tip : GossipAhead(n)
  BY <1>6, GossipAheadKeeps
<1>7. CASE ReceiveSyncBlocks
  BY <1>7, ReceiveSyncBlocksKeeps
<1>8. CASE ReceiveTip
  BY <1>8, ReceiveTipKeeps
<1>9. CASE ReceiveConsensusMessage
  BY <1>9, ConsensusMessageKeeps
<1>10. CASE StateSyncMessage
  BY <1>10, StateSyncMessageKeeps
<1> QED BY <1>1, <1>2, <1>3, <1>4, <1>5, <1>6, <1>7, <1>8, <1>9, <1>10 DEF Next, LoopStep

\* The inductive invariant of the two sync paths.
THEOREM SyncInvariant == Spec => []SyncInv
<1>1. Init => SyncInv
  BY SyncInitial
<1>2. SyncInv /\ [Next]_vars => SyncInv'
  BY SyncStep
<1> QED BY <1>1, <1>2, PTL DEF Spec

\* Whatever is gossiped, requested, lost, delayed or synced from a snapshot,
\* the node stays within its peers' chain, queues only blocks of it and asks
\* for ranges that are not inverted (sync_blocks_rx and block_rx in main.rs).
THEOREM SyncTypeCorrect == Spec => []TypeOK
<1>1. SyncInv => TypeOK
  <2> SUFFICES ASSUME SyncInv PROVE TypeOK
    OBVIOUS
  <2>1. height \in 0..MaxTip /\ tip \in height..MaxTip /\ pending_blocks \subseteq 1..tip
    BY SyncAssumption DEF SyncInv, HeightsInv
  <2>2. \A i \in DOMAIN requests : requests[i].from <= requests[i].to
    <3>1. \A i \in 1..Len(requests) : requests[i] \in Ranges
      BY LenProperties DEF SyncInv, ChannelsInv
    <3>2. DOMAIN requests = 1..Len(requests)
      BY LenProperties DEF SyncInv, ChannelsInv
    <3> QED BY <3>1, <3>2 DEF Ranges
  <2> QED BY <2>1, <2>2 DEF TypeOK, SyncInv, ChannelsInv
<1> QED BY <1>1, SyncInvariant, PTL

\* Until a request fails, sync_in_flight is never left set with nothing under
\* way that would clear it, in whatever order blocks and tips are read.
THEOREM FlagHasCauseHolds == Spec => []FlagHasCause
<1>1. SyncInv => FlagHasCause
  BY DEF SyncInv
<1> QED BY <1>1, SyncInvariant, PTL

\* A snapshot that is applied was assembled from one peer's chunks, however the
\* answers of several peers interleave and whichever restarts the download.
THEOREM SnapshotWholeHolds == Spec => []SnapshotWhole
<1>1. SyncInv => SnapshotWhole
  <2> SUFFICES ASSUME SyncInv PROVE SnapshotWhole
    OBVIOUS
  <2>1. PICK p : applied \subseteq {p}
    BY DEF SyncInv, DownloadInv
  <2>2. applied = {} \/ applied = {p}
    BY <2>1
  <2>3. Cardinality({}) = 0 /\ Cardinality({p}) = 1
    BY FS_EmptySet, FS_Singleton
  <2> QED BY <2>2, <2>3 DEF SnapshotWhole
<1> QED BY <1>1, SyncInvariant, PTL
=============================================================================
