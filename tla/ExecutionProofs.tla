---------------------------- MODULE ExecutionProofs ----------------------------
(***************************************************************************)
(* Proofs about the transaction pool (Mempool) and the block executor      *)
(* (ParallelExecutor).                                                     *)
(* The pool stays sound: its indices agree with its queue under every      *)
(* submission, proposal, failed block and eviction, and no transaction     *)
(* that a proposal draws is lost.                                          *)
(* The executor: the partitions of a block use disjoint keys, a turn reads *)
(* and writes its declared keys only, so an overlay is at any time the     *)
(* state of the sequential execution seen through the keys of its          *)
(* partition, and merging the overlays gives its last state.               *)
(***************************************************************************)
EXTENDS Mempool, ParallelExecutor, SetLemmas, FunctionTheorems, SequenceTheorems

\* The maps from a part of K to V.
Maps(K, V) == UNION {[D -> V] : D \in SUBSET K}

-----------------------------------------------------------------------------
(* Sorting.                                                                *)

\* A sequence of the elements of a finite set has each of them once.
LEMMA SeqOfSet ==
  ASSUME NEW S, IsFiniteSet(S), NEW s \in SetToSeqs(S)
  PROVE  /\ s \in Seq(S) /\ Len(s) = Cardinality(S) /\ Len(s) \in Nat
         /\ DOMAIN s = 1 .. Len(s) /\ Range(s) = S
         /\ \A i, j \in DOMAIN s : s[i] = s[j] => i = j
<1> DEFINE n == Cardinality(S)
<1>1. n \in Nat /\ IsFiniteSet(1 .. n) /\ Cardinality(1 .. n) = n
  BY FS_CardinalityType, FS_Interval
<1>2. s \in [1 .. n -> S] /\ IsInjective(s)
  <2>1. s \in [1 .. n -> S] /\ \A i, j \in 1 .. n : i # j => s[i] # s[j]
    BY Zenon DEF SetToSeqs
  <2> QED BY <2>1 DEF IsInjective
<1>3. s \in Injection(1 .. n, S)
  BY <1>2 DEF Injection
<1>4. s \in Surjection(1 .. n, S)
  BY <1>1, <1>3, FS_Injection
<1>5. Range(s) = S
  BY <1>2, <1>4 DEF Surjection, Range
<1> HIDE DEF n
<1>6. s \in Seq(S) /\ Len(s) = n /\ DOMAIN s = 1 .. Len(s)
  BY <1>1, <1>2
<1>7. \A i, j \in DOMAIN s : s[i] = s[j] => i = j
  BY <1>2 DEF IsInjective
<1> QED BY <1>1, <1>5, <1>6, <1>7 DEF n

\* A strict total order of a finite set, as a set of pairs, orders it: the
\* place of an element is the number of those before it.
StrictOrder(R, S) ==
  /\ \A t \in S : <<t, t>> \notin R
  /\ \A t, u, v \in S : <<t, u>> \in R /\ <<u, v>> \in R => <<t, v>> \in R
  /\ \A t, u \in S : t # u => <<t, u>> \in R \/ <<u, t>> \in R

\* A finite set with a strict order has a sequence of its elements in that order.
LEMMA SortedExists ==
  ASSUME NEW S, IsFiniteSet(S), NEW R, StrictOrder(R, S)
  PROVE  \E s \in SetToSeqs(S) : \A i, j \in DOMAIN s : i < j => <<s[i], s[j]>> \in R
<1> DEFINE n == Cardinality(S)
           below(t) == {u \in S : <<u, t>> \in R}
           rank == [t \in S |-> Cardinality(below(t)) + 1]
<1>1. n \in Nat /\ IsFiniteSet(1 .. n) /\ Cardinality(1 .. n) = n
  BY FS_CardinalityType, FS_Interval
<1>2. ASSUME NEW t \in S
      PROVE  /\ IsFiniteSet(below(t)) /\ Cardinality(below(t)) \in Nat
             /\ t \notin below(t) /\ Cardinality(below(t) \cup {t}) = Cardinality(below(t)) + 1
  <2>1. IsFiniteSet(below(t))
    BY FS_Subset
  <2>2. t \notin below(t)
    BY DEF StrictOrder
  <2> QED BY <2>1, <2>2, FS_CardinalityType, FS_AddElement
<1>3. rank \in [S -> 1 .. n]
  <2>1. ASSUME NEW t \in S PROVE Cardinality(below(t)) + 1 \in 1 .. n
    <3>1. below(t) \cup {t} \in SUBSET S
      OBVIOUS
    <3>2. Cardinality(below(t) \cup {t}) <= n
      BY <3>1, FS_Subset
    <3> HIDE DEF below, n
    <3> QED BY <1>1, <1>2, <3>2
  <2> HIDE DEF below, n
  <2> QED BY <2>1
<1>4. ASSUME NEW t \in S, NEW u \in S, <<t, u>> \in R PROVE rank[t] < rank[u]
  <2>1. below(t) \cup {t} \in SUBSET below(u)
    BY <1>4 DEF StrictOrder
  <2>2. Cardinality(below(t) \cup {t}) <= Cardinality(below(u))
    <3>1. IsFiniteSet(below(u))
      BY <1>2
    <3> HIDE DEF below
    <3> QED BY <2>1, <3>1, FS_Subset
  <2>3. rank[t] = Cardinality(below(t)) + 1 /\ rank[u] = Cardinality(below(u)) + 1
    OBVIOUS
  <2>4. /\ Cardinality(below(t)) \in Nat /\ Cardinality(below(u)) \in Nat
        /\ Cardinality(below(t) \cup {t}) = Cardinality(below(t)) + 1
    BY <1>2
  <2> HIDE DEF below, rank
  <2> QED BY <2>2, <2>3, <2>4
<1>5. rank \in Injection(S, 1 .. n)
  <2>1. ASSUME NEW t \in S, NEW u \in S, rank[t] = rank[u] PROVE t = u
    <3> HIDE DEF rank, n
    <3>1. rank[t] \in 1 .. n /\ rank[u] \in 1 .. n
      BY <1>3
    <3>2. ~(rank[t] < rank[u]) /\ ~(rank[u] < rank[t])
      BY <2>1, <3>1
    <3> QED BY <1>4, <3>2 DEF StrictOrder
  <2> HIDE DEF rank, n
  <2>2. DOMAIN rank = S
    BY <1>3
  <2> QED BY <1>3, <2>1, <2>2 DEF Injection, IsInjective
<1>6. rank \in Surjection(S, 1 .. n)
  <2> HIDE DEF rank
  <2> QED BY <1>1, <1>5, FS_Injection
<1> DEFINE s == [k \in 1 .. n |-> CHOOSE t \in S : rank[t] = k]
<1>7. \A k \in 1 .. n : s[k] \in S /\ rank[s[k]] = k
  <2> HIDE DEF rank, n
  <2>1. \A k \in 1 .. n : \E t \in S : rank[t] = k
    BY <1>6 DEF Surjection
  <2> QED BY <2>1
<1> HIDE DEF s, rank
<1>8. s \in [1 .. n -> S] /\ DOMAIN s = 1 .. n
  BY <1>7 DEF s
<1>9. s \in SetToSeqs(S)
  <2>1. \A i, j \in 1 .. n : i # j => s[i] # s[j]
    BY <1>7
  <2> QED BY <1>8, <2>1, Zenon DEF SetToSeqs
<1>10. ASSUME NEW i \in 1 .. n, NEW j \in 1 .. n, i < j PROVE <<s[i], s[j]>> \in R
  <2>1. s[i] \in S /\ s[j] \in S /\ rank[s[i]] < rank[s[j]]
    BY <1>7, <1>10
  <2>2. ~(rank[s[j]] < rank[s[i]]) /\ s[i] # s[j]
    <3>1. rank[s[i]] = i /\ rank[s[j]] = j /\ i \in Int /\ j \in Int
      BY <1>1, <1>7
    <3> QED BY <1>10, <3>1
  <2>3. <<s[j], s[i]>> \notin R
    BY <1>4, <2>1, <2>2
  <2> QED BY <2>1, <2>2, <2>3 DEF StrictOrder
<1> QED BY <1>8, <1>9, <1>10

-----------------------------------------------------------------------------
(* The pool.                                                               *)


Pools ==
  [pending : Seq(PoolTxs), seen : SUBSET PoolTxs, total_bytes : Nat,
   account_tx_count : Maps(Nat \ {0}, Nat), tx_submit_epoch : Maps(PoolTxs, Nat),
   current_epoch : Nat]

Sizes == [tx \in PoolTxs |-> tx.size]
From(S, a) == {tx \in S : tx.sender = a}

Distinct(s) == \A i, j \in 1 .. Len(s) : s[i] = s[j] => i = j

\* A pool whose indices agree with the queue and whose caps hold.
Sound(p) ==
  /\ p \in Pools
  /\ p.seen = Range(p.pending) /\ Distinct(p.pending)
  /\ DOMAIN p.tx_submit_epoch = p.seen
  /\ p.total_bytes = SumOver(Sizes, p.seen)
  /\ \A a \in Nat \ {0} : /\ CountOf(p, a) = Cardinality(From(p.seen, a))
                         /\ CountOf(p, a) <= MAX_TXS_PER_ACCOUNT
  /\ Len(p.pending) <= MAX_MEMPOOL_SIZE /\ p.total_bytes <= MAX_MEMPOOL_BYTES

\* A sequence without repetition is as long as its range.
LEMMA DistinctRange ==
  ASSUME NEW T, NEW s \in Seq(T)
  PROVE  /\ Len(s) \in Nat /\ DOMAIN s = 1 .. Len(s)
         /\ Range(s) = {s[i] : i \in 1 .. Len(s)} /\ Range(s) \subseteq T
         /\ IsFiniteSet(Range(s)) /\ (Distinct(s) => Cardinality(Range(s)) = Len(s))
<1> DEFINE n == Len(s)
<1>1. n \in Nat /\ DOMAIN s = 1 .. n /\ s \in [1 .. n -> T]
  OBVIOUS
<1>2. Range(s) = {s[i] : i \in 1 .. n} /\ Range(s) \subseteq T
  BY <1>1 DEF Range
<1>3. IsFiniteSet(1 .. n) /\ Cardinality(1 .. n) = n
  BY <1>1, FS_Interval
<1> HIDE DEF n
<1>4. s \in Surjection(1 .. n, Range(s))
  BY <1>1, <1>2 DEF Surjection
<1>5. IsFiniteSet(Range(s)) /\ (s \in Injection(1 .. n, Range(s)) => Cardinality(Range(s)) = n)
  BY <1>3, <1>4, FS_Surjection
<1>6. Distinct(s) => s \in Injection(1 .. n, Range(s))
  BY <1>1, <1>4 DEF Distinct, Injection, IsInjective, Surjection, n
<1> QED BY <1>1, <1>2, <1>5, <1>6 DEF n

\* The fields of a transaction of the pool.
LEMMA TxTypes ==
  ASSUME NEW tx \in PoolTxs
  PROVE  /\ tx.hash \in Nat /\ tx.sender \in Nat /\ tx.nonce \in Nat /\ tx.size \in Nat
         /\ tx.gas \in Nat /\ Sizes[tx] = tx.size
BY MempoolAssumption DEF Sizes

\* The bytes of a queue are those of the transactions in it.
LEMMA BytesAre ==
  ASSUME NEW s \in Seq(PoolTxs)
  PROVE  Bytes(s) = SumOver(Sizes, Range(s)) /\ Bytes(s) \in Nat
<1> DEFINE f == [tx \in Range(s) |-> tx.size]
<1>1. IsFiniteSet(Range(s)) /\ Range(s) \subseteq PoolTxs
  BY DistinctRange
<1>2. \A tx \in Range(s) : f[tx] = Sizes[tx] /\ Sizes[tx] \in Nat
  BY <1>1, TxTypes
<1>3. SumOver(f, Range(s)) = SumOver(Sizes, Range(s))
  <2> HIDE DEF f
  <2> QED BY <1>1, <1>2, SumCongruent
<1>4. SumOver(Sizes, Range(s)) \in Nat
  BY <1>1, <1>2, SumType
<1> QED BY <1>3, <1>4 DEF Bytes

\* What a sound pool and its caps say of the set of its transactions.
LEMMA SoundFacts ==
  ASSUME NEW p, Sound(p)
  PROVE  /\ p.seen \subseteq PoolTxs /\ IsFiniteSet(p.seen)
         /\ p.pending \in Seq(PoolTxs) /\ Len(p.pending) = Cardinality(p.seen)
         /\ Len(p.pending) \in Nat /\ p.total_bytes \in Nat /\ p.current_epoch \in Nat
         /\ \A tx \in p.seen : Sizes[tx] \in Nat
         /\ \A a : IsFiniteSet(From(p.seen, a)) /\ Cardinality(From(p.seen, a)) \in Nat
<1>1. /\ p.pending \in Seq(PoolTxs) /\ p.total_bytes \in Nat /\ p.current_epoch \in Nat
      /\ p.seen = Range(p.pending) /\ Distinct(p.pending)
  BY DEF Sound, Pools
<1>2. /\ p.seen \subseteq PoolTxs /\ IsFiniteSet(p.seen) /\ Len(p.pending) = Cardinality(p.seen)
      /\ Len(p.pending) \in Nat
  BY <1>1, DistinctRange
<1>3. \A tx \in p.seen : Sizes[tx] \in Nat
  BY <1>2, TxTypes
<1>4. \A a : IsFiniteSet(From(p.seen, a)) /\ Cardinality(From(p.seen, a)) \in Nat
  <2>1. ASSUME NEW a PROVE IsFiniteSet(From(p.seen, a))
    BY <1>2, FS_Subset DEF From
  <2> QED BY <2>1, FS_CardinalityType
<1> QED BY <1>1, <1>2, <1>3, <1>4

\* A pool that holds less admits what a fuller one admits, ...
LEMMA LessAdmits ==
  ASSUME NEW p, Sound(p), NEW q, Sound(q), p.seen \subseteq q.seen,
         NEW tx \in PoolTxs, Admits(q, tx)
  PROVE  Admits(p, tx)
<1>1. Cardinality(p.seen) <= Cardinality(q.seen)
  BY SoundFacts, FS_Subset
<1>2. SumOver(Sizes, p.seen) <= SumOver(Sizes, q.seen)
  BY SoundFacts, SumOfSubset
<1>3. \A a : Cardinality(From(p.seen, a)) <= Cardinality(From(q.seen, a))
  <2>1. ASSUME NEW a PROVE Cardinality(From(p.seen, a)) <= Cardinality(From(q.seen, a))
    <3>1. From(p.seen, a) \in SUBSET From(q.seen, a) /\ IsFiniteSet(From(q.seen, a))
      BY SoundFacts DEF From
    <3> QED BY <3>1, FS_Subset
  <2> QED BY <2>1
<1>4. tx \notin p.seen
  BY DEF Admits
<1>5. Len(p.pending) < MAX_MEMPOOL_SIZE
  BY <1>1, SoundFacts, MempoolAssumption DEF Admits
<1>6. p.total_bytes + tx.size <= MAX_MEMPOOL_BYTES
  <2>1. p.total_bytes <= q.total_bytes /\ p.total_bytes \in Nat /\ q.total_bytes \in Nat
    BY <1>2, SoundFacts DEF Sound
  <2> QED BY <2>1, TxTypes, MempoolAssumption DEF Admits
<1>7. tx.sender # 0 => CountOf(p, tx.sender) < MAX_TXS_PER_ACCOUNT
  <2> SUFFICES ASSUME tx.sender # 0 PROVE CountOf(p, tx.sender) < MAX_TXS_PER_ACCOUNT
    OBVIOUS
  <2>1. tx.sender \in Nat \ {0}
    BY TxTypes
  <2>2. /\ CountOf(p, tx.sender) = Cardinality(From(p.seen, tx.sender))
        /\ CountOf(q, tx.sender) = Cardinality(From(q.seen, tx.sender))
    BY <2>1 DEF Sound
  <2>3. CountOf(q, tx.sender) < MAX_TXS_PER_ACCOUNT
    BY DEF Admits
  <2>4. Cardinality(From(p.seen, tx.sender)) \in Nat /\ Cardinality(From(q.seen, tx.sender)) \in Nat
    BY SoundFacts
  <2> QED BY <1>3, <2>2, <2>3, <2>4, MempoolAssumption
<1> QED BY <1>4, <1>5, <1>6, <1>7 DEF Admits

\* ... and one that lacks a transaction of a fuller one admits it.
LEMMA RoomAdmits ==
  ASSUME NEW p, Sound(p), NEW q, Sound(q), p.seen \subseteq q.seen,
         NEW tx \in q.seen, tx \notin p.seen
  PROVE  Admits(p, tx)
<1> DEFINE S == p.seen \cup {tx}
           a == tx.sender
<1>1. /\ S \in SUBSET q.seen /\ IsFiniteSet(q.seen) /\ IsFiniteSet(p.seen) /\ tx \in PoolTxs
      /\ \A u \in q.seen : Sizes[u] \in Nat
  BY SoundFacts
<1>2. Len(p.pending) < MAX_MEMPOOL_SIZE
  <2>1. Cardinality(S) <= Cardinality(q.seen)
    BY <1>1, FS_Subset
  <2>2. Cardinality(S) = Cardinality(p.seen) + 1
    BY <1>1, FS_AddElement
  <2>3. /\ Len(p.pending) = Cardinality(p.seen) /\ Len(q.pending) = Cardinality(q.seen)
        /\ Len(p.pending) \in Nat /\ Len(q.pending) \in Nat
    BY SoundFacts
  <2>4. Len(q.pending) <= MAX_MEMPOOL_SIZE
    BY DEF Sound
  <2> QED BY <2>1, <2>2, <2>3, <2>4, MempoolAssumption
<1>3. p.total_bytes + tx.size <= MAX_MEMPOOL_BYTES
  <2>1. SumOver(Sizes, S) <= SumOver(Sizes, q.seen)
    BY <1>1, SumOfSubset
  <2>2. SumOver(Sizes, S) = Sizes[tx] + SumOver(Sizes, p.seen)
    BY <1>1, SumOfMore
  <2>3. /\ p.total_bytes = SumOver(Sizes, p.seen) /\ q.total_bytes = SumOver(Sizes, q.seen)
        /\ q.total_bytes <= MAX_MEMPOOL_BYTES /\ Sizes[tx] = tx.size /\ tx.size \in Nat
        /\ p.total_bytes \in Nat /\ q.total_bytes \in Nat
    BY <1>1, TxTypes, SoundFacts DEF Sound
  <2> QED BY <2>1, <2>2, <2>3, MempoolAssumption
<1>4. a # 0 => CountOf(p, a) < MAX_TXS_PER_ACCOUNT
  <2> SUFFICES ASSUME a # 0 PROVE CountOf(p, a) < MAX_TXS_PER_ACCOUNT
    OBVIOUS
  <2>1. a \in Nat \ {0}
    BY <1>1, TxTypes
  <2> HIDE DEF a
  <2>2. From(p.seen, a) \cup {tx} \in SUBSET From(q.seen, a) /\ tx \notin From(p.seen, a)
    BY <1>1 DEF From, a
  <2>3. /\ Cardinality(From(p.seen, a) \cup {tx}) <= Cardinality(From(q.seen, a))
        /\ Cardinality(From(p.seen, a) \cup {tx}) = Cardinality(From(p.seen, a)) + 1
        /\ Cardinality(From(p.seen, a)) \in Nat /\ Cardinality(From(q.seen, a)) \in Nat
    BY <2>2, SoundFacts, FS_Subset, FS_AddElement
  <2>4. /\ CountOf(p, a) = Cardinality(From(p.seen, a))
        /\ CountOf(q, a) = Cardinality(From(q.seen, a)) /\ CountOf(q, a) <= MAX_TXS_PER_ACCOUNT
    BY <2>1 DEF Sound
  <2> QED BY <2>3, <2>4, MempoolAssumption
<1> QED BY <1>2, <1>3, <1>4 DEF Admits

\* Admission: the queue gains the transaction and the indices follow.
LEMMA AdmittedSound ==
  ASSUME NEW p, Sound(p), NEW tx \in PoolTxs, Admits(p, tx), NEW s \in Seq(PoolTxs),
         Range(s) = p.seen \cup {tx}, Distinct(s), Len(s) = Len(p.pending) + 1
  PROVE  Sound(Admitted(p, tx, s)) /\ Admitted(p, tx, s).seen = p.seen \cup {tx}
<1> DEFINE c == IF tx.sender = 0 THEN p.account_tx_count
                ELSE With(p.account_tx_count, tx.sender, CountOf(p, tx.sender) + 1)
           e == With(p.tx_submit_epoch, tx, p.current_epoch)
<1>1. p = [pending |-> p.pending, seen |-> p.seen, total_bytes |-> p.total_bytes,
           account_tx_count |-> p.account_tx_count, tx_submit_epoch |-> p.tx_submit_epoch,
           current_epoch |-> p.current_epoch]
  BY DEF Sound, Pools
<1>2. PICK q : q = [pending |-> s, seen |-> p.seen \cup {tx}, total_bytes |-> p.total_bytes + tx.size,
                    account_tx_count |-> c, tx_submit_epoch |-> e, current_epoch |-> p.current_epoch]
  OBVIOUS
<1>3. Admitted(p, tx, s) = q
  <2>1. Admitted(p, tx, s) =
          [p EXCEPT !.pending = s, !.seen = p.seen \cup {tx}, !.total_bytes = p.total_bytes + tx.size,
                    !.account_tx_count = c, !.tx_submit_epoch = e]
    BY DEF Admitted
  <2> HIDE DEF c, e
  <2> QED BY <1>1, <1>2, <2>1
<1>4. /\ q.pending = s /\ q.seen = p.seen \cup {tx} /\ q.total_bytes = p.total_bytes + tx.size
      /\ q.account_tx_count = c /\ q.tx_submit_epoch = e /\ q.current_epoch = p.current_epoch
  BY <1>2
<1>5. /\ tx.size \in Nat /\ tx.sender \in Nat /\ Sizes[tx] = tx.size
      /\ p.total_bytes \in Nat /\ p.current_epoch \in Nat /\ p.seen \subseteq PoolTxs
      /\ IsFiniteSet(p.seen) /\ Len(p.pending) \in Nat /\ \A u \in p.seen : Sizes[u] \in Nat
  BY TxTypes, SoundFacts
<1>6. PICK D \in SUBSET (Nat \ {0}) : p.account_tx_count \in [D -> Nat]
  BY DEF Sound, Pools, Maps
<1>7. p.tx_submit_epoch \in [p.seen -> Nat]
  <2>1. PICK T \in SUBSET PoolTxs : p.tx_submit_epoch \in [T -> Nat]
    BY DEF Sound, Pools, Maps
  <2> QED BY <2>1 DEF Sound
<1>8. tx.sender # 0 => /\ CountOf(p, tx.sender) = Cardinality(From(p.seen, tx.sender))
                      /\ CountOf(p, tx.sender) \in Nat
                      /\ CountOf(p, tx.sender) + 1 <= MAX_TXS_PER_ACCOUNT
  <2> SUFFICES ASSUME tx.sender # 0
               PROVE  /\ CountOf(p, tx.sender) = Cardinality(From(p.seen, tx.sender))
                      /\ CountOf(p, tx.sender) \in Nat
                      /\ CountOf(p, tx.sender) + 1 <= MAX_TXS_PER_ACCOUNT
    OBVIOUS
  <2>1. CountOf(p, tx.sender) = Cardinality(From(p.seen, tx.sender))
    BY <1>5 DEF Sound
  <2>2. CountOf(p, tx.sender) \in Nat
    BY <2>1, SoundFacts
  <2> QED BY <2>1, <2>2, MempoolAssumption DEF Admits
<1>9. c \in Maps(Nat \ {0}, Nat)
  <2>1. CASE tx.sender = 0
    BY <1>6, <2>1 DEF Maps
  <2>2. CASE tx.sender # 0
    <3>1. c \in [D \cup {tx.sender} -> Nat]
      <4>1. PICK k \in Nat : k = CountOf(p, tx.sender) + 1
        BY <1>8, <2>2
      <4>2. c = With(p.account_tx_count, tx.sender, k)
        BY <2>2, <4>1
      <4>3. DOMAIN p.account_tx_count = D
        BY <1>6
      <4> HIDE DEF c
      <4> QED BY <1>6, <4>2, <4>3, WithFacts
    <3>2. D \cup {tx.sender} \in SUBSET (Nat \ {0})
      BY <1>5, <2>2
    <3> HIDE DEF c
    <3> QED BY <3>1, <3>2 DEF Maps
  <2> QED BY <2>1, <2>2
<1>10. e \in [p.seen \cup {tx} -> Nat]
  BY <1>5, <1>7 DEF With
<1>11. \A a \in Nat \ {0} : /\ CountOf(q, a) = Cardinality(From(q.seen, a))
                           /\ CountOf(q, a) <= MAX_TXS_PER_ACCOUNT
  <2> SUFFICES ASSUME NEW a \in Nat \ {0}
               PROVE  /\ CountOf(q, a) = Cardinality(From(q.seen, a))
                      /\ CountOf(q, a) <= MAX_TXS_PER_ACCOUNT
    OBVIOUS
  <2>0. /\ CountOf(p, a) = Cardinality(From(p.seen, a)) /\ CountOf(p, a) <= MAX_TXS_PER_ACCOUNT
        /\ IsFiniteSet(From(p.seen, a)) /\ tx \notin From(p.seen, a)
    BY SoundFacts DEF Sound, Admits, From
  <2>1. CASE a = tx.sender
    <3>1. From(q.seen, a) = From(p.seen, a) \cup {tx}
      BY <1>4, <2>1 DEF From
    <3>2. Cardinality(From(q.seen, a)) = Cardinality(From(p.seen, a)) + 1
      BY <2>0, <3>1, FS_AddElement
    <3>3. CountOf(q, a) = CountOf(p, a) + 1
      BY <1>4, <2>1 DEF CountOf, With
    <3> QED BY <1>8, <2>0, <2>1, <3>2, <3>3
  <2>2. CASE a # tx.sender
    <3>1. From(q.seen, a) = From(p.seen, a)
      BY <1>4, <2>2 DEF From
    <3>2. CountOf(q, a) = CountOf(p, a)
      BY <1>4, <1>6, <2>2 DEF CountOf, With
    <3> QED BY <2>0, <3>1, <3>2
  <2> QED BY <2>1, <2>2
<1>12. q.total_bytes = SumOver(Sizes, q.seen)
  <2>1. SumOver(Sizes, p.seen \cup {tx}) = Sizes[tx] + SumOver(Sizes, p.seen)
    BY <1>5, SumOfMore DEF Admits
  <2> QED BY <1>4, <1>5, <2>1 DEF Sound
<1>13. Len(q.pending) <= MAX_MEMPOOL_SIZE /\ q.total_bytes <= MAX_MEMPOOL_BYTES
  BY <1>4, <1>5, MempoolAssumption DEF Admits
<1> HIDE DEF c, e
<1>14. q \in Pools
  <2>1. e \in Maps(PoolTxs, Nat)
    BY <1>5, <1>10 DEF Maps
  <2> QED BY <1>2, <1>5, <1>9, <2>1 DEF Pools
<1>15. DOMAIN q.tx_submit_epoch = q.seen
  BY <1>4, <1>10
<1> QED BY <1>3, <1>4, <1>11, <1>12, <1>13, <1>14, <1>15 DEF Sound

\* submit_priority and submit.
LEMMA FrontSound ==
  ASSUME NEW p, Sound(p), NEW tx \in PoolTxs
  PROVE  /\ Sound(AtFront(p, tx))
         /\ AtFront(p, tx).seen = IF Admits(p, tx) THEN p.seen \cup {tx} ELSE p.seen
<1>1. CASE ~Admits(p, tx)
  BY <1>1 DEF AtFront
<1>2. CASE Admits(p, tx)
  <2>1. PICK s : s = <<tx>> \o p.pending
    OBVIOUS
  <2>2. p.pending \in Seq(PoolTxs) /\ Len(p.pending) \in Nat
    BY SoundFacts
  <2>3. /\ s \in Seq(PoolTxs) /\ Len(s) = Len(p.pending) + 1 /\ s[1] = tx
        /\ \A i \in 2 .. Len(s) : s[i] = p.pending[i - 1] /\ i - 1 \in 1 .. Len(p.pending)
        /\ \A i \in 1 .. Len(p.pending) : s[i + 1] = p.pending[i] /\ i + 1 \in 1 .. Len(s)
    BY <2>1, <2>2
  <2>4. /\ p.seen = {p.pending[i] : i \in 1 .. Len(p.pending)} /\ tx \notin p.seen
        /\ Distinct(p.pending) /\ Range(s) = {s[i] : i \in 1 .. Len(s)}
    BY <1>2, <2>2, <2>3, DistinctRange DEF Sound, Admits
  <2>5. \A i \in 1 .. Len(s) : i = 1 \/ i \in 2 .. Len(s)
    BY <2>2, <2>3
  <2>6. Range(s) = p.seen \cup {tx}
    <3>1. ASSUME NEW i \in 1 .. Len(s) PROVE s[i] \in p.seen \cup {tx}
      <4>1. CASE i = 1
        BY <2>3, <4>1
      <4>2. CASE i \in 2 .. Len(s)
        BY <2>3, <2>4, <4>2
      <4> QED BY <2>5, <4>1, <4>2
    <3>2. ASSUME NEW i \in 1 .. Len(p.pending) PROVE p.pending[i] \in Range(s)
      <4>1. PICK k \in 1 .. Len(s) : s[k] = p.pending[i]
        BY <2>3
      <4> QED BY <2>4, <4>1
    <3>3. tx \in Range(s)
      BY <2>2, <2>3, <2>4
    <3> QED BY <2>4, <3>1, <3>2, <3>3
  <2>7. Distinct(s)
    <3> SUFFICES ASSUME NEW i \in 1 .. Len(s), NEW j \in 1 .. Len(s), s[i] = s[j] PROVE i = j
      BY DEF Distinct
    <3>1. \A k \in 2 .. Len(s) : s[k] # tx
      BY <2>3, <2>4
    <3>2. CASE i = 1 \/ j = 1
      BY <2>3, <2>5, <3>1, <3>2
    <3>3. CASE i \in 2 .. Len(s) /\ j \in 2 .. Len(s)
      <4>1. PICK k \in 1 .. Len(p.pending) : k = i - 1 /\ s[i] = p.pending[k]
        BY <2>3, <3>3
      <4>2. PICK l \in 1 .. Len(p.pending) : l = j - 1 /\ s[j] = p.pending[l]
        BY <2>3, <3>3
      <4>3. k = l
        BY <2>4, <4>1, <4>2 DEF Distinct
      <4> QED BY <4>1, <4>2, <4>3
    <3> QED BY <2>5, <3>2, <3>3
  <2>8. AtFront(p, tx) = Admitted(p, tx, s)
    BY <1>2, <2>1 DEF AtFront
  <2> QED BY <1>2, <2>3, <2>6, <2>7, <2>8, AdmittedSound
<1> QED BY <1>1, <1>2

\* Mempool::submit keeps the pool sound and adds the transaction when it admits it.
LEMMA BackSound ==
  ASSUME NEW p, Sound(p), NEW tx \in PoolTxs
  PROVE  /\ Sound(AtBack(p, tx))
         /\ AtBack(p, tx).seen = IF Admits(p, tx) THEN p.seen \cup {tx} ELSE p.seen
<1>1. CASE ~Admits(p, tx)
  BY <1>1 DEF AtBack
<1>2. CASE Admits(p, tx)
  <2>1. PICK s : s = Append(p.pending, tx)
    OBVIOUS
  <2>2. PICK n \in Nat : n = Len(p.pending)
    BY SoundFacts
  <2>3. p.pending \in Seq(PoolTxs)
    BY SoundFacts
  <2>4. /\ s \in Seq(PoolTxs) /\ Len(s) = n + 1 /\ s[n + 1] = tx
        /\ \A i \in 1 .. n : s[i] = p.pending[i]
    BY <2>1, <2>2, <2>3
  <2>5. /\ p.seen = {p.pending[i] : i \in 1 .. n} /\ tx \notin p.seen
        /\ Distinct(p.pending) /\ Range(s) = {s[i] : i \in 1 .. (n + 1)}
    BY <1>2, <2>2, <2>3, <2>4, DistinctRange DEF Sound, Admits
  <2>6. \A i \in 1 .. (n + 1) : i = n + 1 \/ i \in 1 .. n
    BY <2>2
  <2>7. Range(s) = p.seen \cup {tx}
    <3>1. Range(s) \subseteq p.seen \cup {tx}
      BY <2>4, <2>5, <2>6
    <3>2. p.seen \subseteq Range(s)
      BY <2>2, <2>4, <2>5
    <3>3. tx \in Range(s)
      BY <2>2, <2>4, <2>5
    <3> QED BY <3>1, <3>2, <3>3
  <2>8. Distinct(s)
    <3>1. \A k \in 1 .. n : s[k] # tx
      BY <2>4, <2>5
    <3> QED BY <2>2, <2>4, <2>5, <2>6, <3>1 DEF Distinct
  <2>9. AtBack(p, tx) = Admitted(p, tx, s)
    BY <1>2, <2>1 DEF AtBack
  <2> QED BY <1>2, <2>2, <2>4, <2>7, <2>8, <2>9, AdmittedSound
<1> QED BY <1>1, <1>2

\* Transactions leave the queue and the indices.
LEMMA WithoutSound ==
  ASSUME NEW p, Sound(p), NEW gone \in SUBSET p.seen, NEW s \in Seq(PoolTxs),
         Range(s) = p.seen \ gone, Distinct(s)
  PROVE  Sound(WithoutTxs(p, gone, s)) /\ WithoutTxs(p, gone, s).seen = p.seen \ gone
<1> DEFINE c == [a \in {b \in DOMAIN p.account_tx_count : CountsLeft(p, gone, b) > 0} |->
                   CountsLeft(p, gone, a)]
           e == Less(p.tx_submit_epoch, gone)
<1>1. p = [pending |-> p.pending, seen |-> p.seen, total_bytes |-> p.total_bytes,
           account_tx_count |-> p.account_tx_count, tx_submit_epoch |-> p.tx_submit_epoch,
           current_epoch |-> p.current_epoch]
  BY DEF Sound, Pools
<1>2. PICK q : q = [pending |-> s, seen |-> p.seen \ gone, total_bytes |-> Bytes(s),
                    account_tx_count |-> c, tx_submit_epoch |-> e, current_epoch |-> p.current_epoch]
  OBVIOUS
<1>3. WithoutTxs(p, gone, s) = q
  <2>1. WithoutTxs(p, gone, s) =
          [p EXCEPT !.pending = s, !.seen = p.seen \ gone, !.total_bytes = Bytes(s),
                    !.tx_submit_epoch = e, !.account_tx_count = c]
    BY DEF WithoutTxs
  <2> HIDE DEF c, e
  <2> QED BY <1>1, <1>2, <2>1
<1>4. /\ q.pending = s /\ q.seen = p.seen \ gone /\ q.total_bytes = Bytes(s)
      /\ q.account_tx_count = c /\ q.tx_submit_epoch = e /\ q.current_epoch = p.current_epoch
  BY <1>2
<1>5. /\ p.total_bytes \in Nat /\ p.current_epoch \in Nat /\ p.seen \subseteq PoolTxs
      /\ IsFiniteSet(p.seen) /\ Len(p.pending) = Cardinality(p.seen) /\ Len(p.pending) \in Nat
      /\ \A u \in p.seen : Sizes[u] \in Nat
  BY SoundFacts
<1>6. PICK D \in SUBSET (Nat \ {0}) : p.account_tx_count \in [D -> Nat]
  BY DEF Sound, Pools, Maps
<1>7. p.tx_submit_epoch \in [p.seen -> Nat]
  <2>1. PICK T \in SUBSET PoolTxs : p.tx_submit_epoch \in [T -> Nat]
    BY DEF Sound, Pools, Maps
  <2> QED BY <2>1 DEF Sound
<1>8. ASSUME NEW a \in Nat \ {0}
      PROVE  /\ CountsLeft(p, gone, a) = Cardinality(From(p.seen \ gone, a))
             /\ CountsLeft(p, gone, a) \in Nat /\ CountsLeft(p, gone, a) <= MAX_TXS_PER_ACCOUNT
  <2> DEFINE G == {tx \in gone : tx.sender = a}
             A == From(p.seen, a)
  <2>1. IsFiniteSet(A) /\ Cardinality(A) \in Nat /\ CountOf(p, a) = Cardinality(A)
    BY SoundFacts DEF Sound
  <2>2. CountOf(p, a) <= MAX_TXS_PER_ACCOUNT
    BY DEF Sound
  <2>3. G \in SUBSET A /\ A \ G = From(p.seen \ gone, a) /\ A \cap G = G
    BY DEF From
  <2>4. CountsLeft(p, gone, a) = CountOf(p, a) - Cardinality(G)
    BY DEF CountsLeft
  <2> HIDE DEF G, A
  <2>5. IsFiniteSet(G) /\ Cardinality(G) \in Nat /\ Cardinality(G) <= Cardinality(A)
    BY <2>1, <2>3, FS_Subset, FS_CardinalityType
  <2>6. Cardinality(A \ G) = Cardinality(A) - Cardinality(G)
    BY <2>1, <2>3, FS_Difference
  <2>7. /\ CountsLeft(p, gone, a) = Cardinality(A \ G)
        /\ CountsLeft(p, gone, a) \in Nat /\ CountsLeft(p, gone, a) <= MAX_TXS_PER_ACCOUNT
    BY <2>1, <2>2, <2>4, <2>5, <2>6, MempoolAssumption
  <2> QED BY <2>3, <2>7
<1>9. c \in Maps(Nat \ {0}, Nat)
  <2> DEFINE E == {b \in DOMAIN p.account_tx_count : CountsLeft(p, gone, b) > 0}
  <2>1. E \in SUBSET (Nat \ {0})
    BY <1>6
  <2>2. c \in [E -> Nat]
    BY <1>8, <2>1
  <2> HIDE DEF c, E
  <2> QED BY <2>1, <2>2 DEF Maps
<1>10. e \in [p.seen \ gone -> Nat]
  BY <1>7 DEF Less
<1>11. \A a \in Nat \ {0} : /\ CountOf(q, a) = Cardinality(From(q.seen, a))
                           /\ CountOf(q, a) <= MAX_TXS_PER_ACCOUNT
  <2> SUFFICES ASSUME NEW a \in Nat \ {0} PROVE CountOf(q, a) = CountsLeft(p, gone, a)
    BY <1>4, <1>8
  <2>1. CASE a \in DOMAIN p.account_tx_count
    <3>1. CountOf(q, a) = IF CountsLeft(p, gone, a) > 0 THEN CountsLeft(p, gone, a) ELSE 0
      BY <1>4, <2>1 DEF CountOf
    <3> QED BY <1>8, <3>1
  <2>2. CASE a \notin DOMAIN p.account_tx_count
    <3>1. CountOf(p, a) = 0 /\ CountOf(q, a) = 0
      BY <1>4, <2>2 DEF CountOf
    <3>2. CountsLeft(p, gone, a) <= 0
      <4>1. {tx \in gone : tx.sender = a} \in SUBSET p.seen
        OBVIOUS
      <4>2. Cardinality({tx \in gone : tx.sender = a}) \in Nat
        BY <1>5, <4>1, FS_Subset, FS_CardinalityType
      <4> QED BY <3>1, <4>2 DEF CountsLeft
    <3> QED BY <1>8, <3>1, <3>2
  <2> QED BY <2>1, <2>2
<1> HIDE DEF c, e
<1>12. q.total_bytes = SumOver(Sizes, q.seen) /\ q.total_bytes \in Nat
  BY <1>4, BytesAre
<1>13. Len(q.pending) <= MAX_MEMPOOL_SIZE /\ q.total_bytes <= MAX_MEMPOOL_BYTES
  <2>1. q.total_bytes <= p.total_bytes
    <3>1. SumOver(Sizes, p.seen \ gone) <= SumOver(Sizes, p.seen)
      BY <1>5, SumOfSubset
    <3> QED BY <1>4, <1>12, <3>1 DEF Sound
  <2>2. Len(s) = Cardinality(p.seen \ gone) /\ Len(s) \in Nat
    BY DistinctRange
  <2>3. Cardinality(p.seen \ gone) <= Cardinality(p.seen)
    BY <1>5, FS_Subset
  <2> QED BY <1>4, <1>5, <1>12, <2>1, <2>2, <2>3, MempoolAssumption DEF Sound
<1>14. q \in Pools
  <2>1. e \in Maps(PoolTxs, Nat)
    BY <1>5, <1>10 DEF Maps
  <2> QED BY <1>2, <1>4, <1>5, <1>9, <1>12, <2>1 DEF Pools
<1>15. DOMAIN q.tx_submit_epoch = q.seen
  BY <1>4, <1>10
<1> QED BY <1>3, <1>4, <1>11, <1>12, <1>13, <1>14, <1>15 DEF Sound

-----------------------------------------------------------------------------
(* Giving transactions back.                                               *)

SoundPools == {p \in Pools : Sound(p)}

\* GiveBack takes the transactions one by one, through sound pools.
LEMMA GiveBackRun ==
  ASSUME NEW p, Sound(p), NEW txs \in Seq(PoolTxs)
  PROVE  \E g \in [0 .. Len(txs) -> SoundPools] :
           /\ g[0] = p /\ GiveBack(p, txs) = g[Len(txs)]
           /\ \A n \in 1 .. Len(txs) : g[n] = AtFront(g[n - 1], txs[n])
<1> DEFINE N == Len(txs)
           X == SoundPools
           step == [z \in X \X (1 .. N) |-> AtFront(z[1], txs[z[2]])]
           a(h, s) == IF s = {} THEN p ELSE AtFront(h[s \ {Max(s)}], txs[Max(s)])
           P(h) == h = [s \in SUBSET (1 .. N) |-> a(h, s)]
<1>1. N \in Nat /\ DOMAIN txs = 1 .. N /\ \A i \in 1 .. N : txs[i] \in PoolTxs
  OBVIOUS
<1>2. \A q \in X : \A i \in 1 .. N : AtFront(q, txs[i]) \in X
  <2> SUFFICES ASSUME NEW q \in X, NEW i \in 1 .. N PROVE AtFront(q, txs[i]) \in X
    OBVIOUS
  <2>1. Sound(q) /\ txs[i] \in PoolTxs
    BY <1>1 DEF SoundPools
  <2>2. Sound(AtFront(q, txs[i]))
    BY <2>1, FrontSound
  <2> QED BY <2>2 DEF SoundPools, Sound
<1>3. p \in X
  BY DEF SoundPools, Sound
<1>4. GiveBack(p, txs) = (CHOOSE h : P(h))[1 .. N]
  BY <1>1, Zenon DEF GiveBack, FoldLeft, MapThenFoldSet
<1>5. step \in [X \X (1 .. N) -> X]
  BY <1>2
<1>6. \E h : P(h)
  <2>1. PICK h : IsLeftFold(h, step, p, N) /\ \A s \in SUBSET (1 .. N) : h[s] \in X
    <3> HIDE DEF step, X, N
    <3> QED BY <1>1, <1>3, <1>5, LeftFoldTyped
  <2> DEFINE b(s) == IF s = {} THEN p ELSE step[<<h[s \ {Max(s)}], Max(s)>>]
  <2>2. ASSUME NEW s \in SUBSET (1 .. N) PROVE b(s) = a(h, s)
    <3>1. CASE s = {}
      BY <3>1
    <3>2. CASE s # {}
      <4>1. Max(s) \in 1 .. N /\ s \ {Max(s)} \in SUBSET (1 .. N)
        BY <1>1, <3>2, LastPosition
      <4>2. h[s \ {Max(s)}] \in X
        BY <2>1, <4>1
      <4> QED BY <3>2, <4>1, <4>2
    <3> QED BY <3>1, <3>2
  <2>3. h = [s \in SUBSET (1 .. N) |-> b(s)]
    BY <2>1, Zenon DEF IsLeftFold
  <2> HIDE DEF a, b, N
  <2>4. h = [s \in SUBSET (1 .. N) |-> a(h, s)]
    BY <2>2, <2>3
  <2> QED BY <2>4
<1>7. PICK h : P(h) /\ GiveBack(p, txs) = h[1 .. N]
  <2>1. P(CHOOSE h : P(h))
    <3> HIDE DEF P
    <3> QED BY <1>6, Zenon
  <2> QED BY <1>4, <2>1, Zenon
<1>8. h[{}] = p /\ \A n \in 1 .. N : h[1 .. n] = AtFront(h[1 .. (n - 1)], txs[n])
  <2>1. \A s \in SUBSET (1 .. N) : h[s] = a(h, s)
    <3> HIDE DEF a
    <3> QED BY <1>7
  <2>2. h[{}] = p
    BY <2>1
  <2>3. ASSUME NEW n \in 1 .. N PROVE h[1 .. n] = AtFront(h[1 .. (n - 1)], txs[n])
    <3> HIDE DEF N
    <3>1. /\ 1 .. n \in SUBSET (1 .. N) /\ 1 .. n # {} /\ Max(1 .. n) = n
          /\ (1 .. n) \ {n} = 1 .. (n - 1)
      BY <1>1, PrefixOf
    <3> QED BY <2>1, <3>1
  <2> QED BY <2>2, <2>3
<1> DEFINE g == [n \in 0 .. N |-> h[1 .. n]]
<1>9. g[0] = p /\ g[N] = GiveBack(p, txs)
  <2> HIDE DEF N
  <2>1. 1 .. 0 = {} /\ 0 \in 0 .. N /\ N \in 0 .. N
    BY <1>1
  <2>2. g[0] = h[1 .. 0] /\ g[N] = h[1 .. N]
    BY <2>1
  <2> QED BY <1>7, <1>8, <2>1, <2>2
<1>10. \A n \in 1 .. N : g[n] = AtFront(g[n - 1], txs[n])
  <2> SUFFICES ASSUME NEW n \in 1 .. N PROVE g[n] = AtFront(g[n - 1], txs[n])
    OBVIOUS
  <2>1. n \in 0 .. N /\ n - 1 \in 0 .. N
    BY <1>1
  <2> HIDE DEF N
  <2> QED BY <1>8, <2>1
<1>11. g = [n \in 0 .. N |-> g[n]]
  OBVIOUS
<1> HIDE DEF g
<1>12. \A n \in 1 .. N : g[n - 1] \in X => g[n] \in X
  <2> HIDE DEF X, N
  <2> QED BY <1>2, <1>10
<1>13. g \in [0 .. N -> X]
  <2> HIDE DEF X, N
  <2> QED BY <1>1, <1>3, <1>9, <1>11, <1>12, RunTyped
<1> QED BY <1>9, <1>10, <1>13

\* What was given back is in the pool or is refused: none leaves the pool, and
\* what the pool refuses once it refuses at the end.
LEMMA GiveBackSound ==
  ASSUME NEW p, Sound(p), NEW txs \in Seq(PoolTxs)
  PROVE  /\ Sound(GiveBack(p, txs)) /\ p.seen \subseteq GiveBack(p, txs).seen
         /\ GiveBack(p, txs).seen \subseteq p.seen \cup Range(txs)
         /\ \A tx \in Range(txs) : tx \in GiveBack(p, txs).seen \/ ~Admits(GiveBack(p, txs), tx)
<1> DEFINE N == Len(txs)
<1>0. N \in Nat /\ Range(txs) = {txs[i] : i \in 1 .. N} /\ \A i \in 1 .. N : txs[i] \in PoolTxs
  BY DistinctRange
<1>1. PICK g \in [0 .. N -> SoundPools] :
        /\ g[0] = p /\ GiveBack(p, txs) = g[N]
        /\ \A n \in 1 .. N : g[n] = AtFront(g[n - 1], txs[n])
  BY GiveBackRun
<1>2. \A n \in 0 .. N : Sound(g[n])
  BY <1>1 DEF SoundPools
<1>3. ASSUME NEW n \in 0 .. (N - 1)
      PROVE  /\ n + 1 \in 1 .. N /\ n + 1 \in 0 .. N /\ n \in 0 .. N /\ txs[n + 1] \in PoolTxs
             /\ g[n + 1] = AtFront(g[n], txs[n + 1])
             /\ g[n + 1].seen = IF Admits(g[n], txs[n + 1]) THEN g[n].seen \cup {txs[n + 1]} ELSE g[n].seen
  <2>1. n + 1 \in 1 .. N /\ n + 1 \in 0 .. N /\ n \in 0 .. N /\ (n + 1) - 1 = n
    BY <1>0
  <2>2. g[n + 1] = AtFront(g[n], txs[n + 1]) /\ txs[n + 1] \in PoolTxs
    BY <1>0, <1>1, <2>1
  <2>3. Sound(g[n])
    BY <1>2, <2>1
  <2> QED BY <2>1, <2>2, <2>3, FrontSound
<1> DEFINE T == {n \in 0 .. N : /\ p.seen \subseteq g[n].seen
                               /\ g[n].seen \subseteq p.seen \cup Range(txs)
                               /\ \A i \in 1 .. n : \/ txs[i] \in g[n].seen
                                                   \/ ~Admits(g[n], txs[i])}
<1> HIDE DEF N
<1>4. 0 \in T
  BY <1>0, <1>1
<1>5. ASSUME NEW n \in 0 .. (N - 1), n \in T PROVE n + 1 \in T
  <2>0. PICK m \in 1 .. N : m = n + 1
    BY <1>3
  <2>1. /\ m \in 0 .. N /\ n \in 0 .. N /\ txs[m] \in PoolTxs /\ g[m] = AtFront(g[n], txs[m])
        /\ g[m].seen = IF Admits(g[n], txs[m]) THEN g[n].seen \cup {txs[m]} ELSE g[n].seen
    BY <1>3, <2>0
  <2>2. g[n].seen \subseteq g[m].seen /\ txs[m] \in Range(txs)
    BY <1>0, <2>0, <2>1
  <2>3. Sound(g[n]) /\ Sound(g[m])
    BY <1>2, <2>1
  <2>4. ASSUME NEW i \in 1 .. m PROVE txs[i] \in g[m].seen \/ ~Admits(g[m], txs[i])
    <3>1. txs[i] \in PoolTxs
      BY <1>0, <2>0
    <3>2. CASE i = m
      <4>1. CASE Admits(g[n], txs[m])
        BY <2>1, <3>2, <4>1
      <4>2. CASE ~Admits(g[n], txs[m])
        BY <2>1, <2>2, <2>3, <3>2, <4>2, LessAdmits
      <4> QED BY <4>1, <4>2
    <3>3. CASE i # m
      <4>1. i \in 1 .. n
        BY <1>0, <2>0, <3>3
      <4>2. txs[i] \in g[n].seen \/ ~Admits(g[n], txs[i])
        BY <1>5, <4>1
      <4> QED BY <2>2, <2>3, <3>1, <4>2, LessAdmits
    <3> QED BY <3>2, <3>3
  <2> QED BY <1>5, <2>0, <2>1, <2>2, <2>4
<1>6. N \in 0 .. N
  BY <1>0
<1>7. N \in T
  <2> HIDE DEF T
  <2>1. \A n \in 0 .. N : n \in T
    BY <1>0, <1>4, <1>5, UpTo
  <2> QED BY <1>6, <2>1
<1> QED BY <1>0, <1>1, <1>2, <1>6, <1>7

\* Transactions of a sound pool that were taken out fit in again.
LEMMA GiveBackAll ==
  ASSUME NEW p, Sound(p), NEW q, Sound(q), p.seen \subseteq q.seen,
         NEW txs \in Seq(PoolTxs), Range(txs) \subseteq q.seen
  PROVE  Sound(GiveBack(p, txs)) /\ GiveBack(p, txs).seen = p.seen \cup Range(txs)
<1>1. PICK r : r = GiveBack(p, txs)
  OBVIOUS
<1>2. /\ Sound(r) /\ p.seen \subseteq r.seen /\ r.seen \subseteq p.seen \cup Range(txs)
      /\ \A tx \in Range(txs) : tx \in r.seen \/ ~Admits(r, tx)
  BY <1>1, GiveBackSound
<1>3. r.seen \subseteq q.seen
  BY <1>2
<1>4. ASSUME NEW tx \in Range(txs) PROVE tx \in r.seen
  BY <1>2, <1>3, RoomAdmits
<1> QED BY <1>1, <1>2, <1>4

-----------------------------------------------------------------------------
(* Drawing a block.                                                        *)

\* The order of the ranks, written out.
LEMMA BeforeIs ==
  ASSUME NEW r \in [1 .. 4 -> Nat], NEW s \in [1 .. 4 -> Nat]
  PROVE  Before(r, s) <=> \/ r[1] < s[1]
                          \/ r[1] = s[1] /\ r[2] < s[2]
                          \/ r[1] = s[1] /\ r[2] = s[2] /\ r[3] < s[3]
                          \/ r[1] = s[1] /\ r[2] = s[2] /\ r[3] = s[3] /\ r[4] < s[4]
<1>1. DOMAIN r = {1, 2, 3, 4}
  OBVIOUS
<1>2. 1 .. (1 - 1) = {} /\ 1 .. (2 - 1) = {1} /\ 1 .. (3 - 1) = {1, 2} /\ 1 .. (4 - 1) = {1, 2, 3}
  OBVIOUS
<1> QED BY <1>1, <1>2 DEF Before

\* The rank orders the transactions of a pool.
LEMMA RankOrders ==
  ASSUME NEW p, Sound(p), NEW height \in Nat
  PROVE  StrictOrder({z \in p.seen \X p.seen : Before(Rank(p, z[1], height), Rank(p, z[2], height))},
                     p.seen)
<1> DEFINE R == {z \in p.seen \X p.seen : Before(Rank(p, z[1], height), Rank(p, z[2], height))}
           rank == [tx \in p.seen |-> Rank(p, tx, height)]
<1>1. rank \in [p.seen -> [1 .. 4 -> Nat]]
  <2> SUFFICES ASSUME NEW tx \in p.seen PROVE Rank(p, tx, height) \in [1 .. 4 -> Nat]
    OBVIOUS
  <2>1. tx \in PoolTxs
    BY SoundFacts
  <2>2. tx.sender \in Nat /\ tx.nonce \in Nat /\ tx.hash \in Nat
    BY <2>1, TxTypes
  <2>3. PICK T \in SUBSET PoolTxs : p.tx_submit_epoch \in [T -> Nat]
    BY DEF Sound, Pools, Maps
  <2>4. p.tx_submit_epoch[tx] \in Nat
    BY <2>3 DEF Sound
  <2>5. Elapsed(p, tx, height) \in Nat
    BY <2>4 DEF Elapsed
  <2> QED BY <2>2, <2>5 DEF Rank
<1>2. \A t, u \in p.seen : rank[t][4] = rank[u][4] => t = u
  <2> SUFFICES ASSUME NEW t \in p.seen, NEW u \in p.seen, rank[t][4] = rank[u][4] PROVE t = u
    OBVIOUS
  <2>1. t \in PoolTxs /\ u \in PoolTxs
    BY SoundFacts
  <2>2. t.hash = u.hash
    BY DEF Rank
  <2> QED BY <2>1, <2>2, MempoolAssumption
<1>3. \A t, u \in p.seen : <<t, u>> \in R <=> Before(rank[t], rank[u])
  OBVIOUS
<1> HIDE DEF rank, R
<1>4. ASSUME NEW t \in p.seen, NEW u \in p.seen
      PROVE  <<t, u>> \in R <=>
               \/ rank[t][1] < rank[u][1]
               \/ rank[t][1] = rank[u][1] /\ rank[t][2] < rank[u][2]
               \/ /\ rank[t][1] = rank[u][1] /\ rank[t][2] = rank[u][2]
                  /\ rank[t][3] < rank[u][3]
               \/ /\ rank[t][1] = rank[u][1] /\ rank[t][2] = rank[u][2]
                  /\ rank[t][3] = rank[u][3] /\ rank[t][4] < rank[u][4]
  BY <1>1, <1>3, BeforeIs
<1>5. ASSUME NEW t \in p.seen
      PROVE rank[t][1] \in Nat /\ rank[t][2] \in Nat /\ rank[t][3] \in Nat /\ rank[t][4] \in Nat
  BY <1>1
<1>6. ASSUME NEW t \in p.seen PROVE <<t, t>> \notin R
  BY <1>4, <1>5
<1>7. ASSUME NEW t \in p.seen, NEW u \in p.seen, NEW v \in p.seen, <<t, u>> \in R, <<u, v>> \in R
      PROVE  <<t, v>> \in R
  BY <1>4, <1>5, <1>7
<1>8. ASSUME NEW t \in p.seen, NEW u \in p.seen, t # u PROVE <<t, u>> \in R \/ <<u, t>> \in R
  <2>1. rank[t][4] # rank[u][4]
    BY <1>2, <1>8
  <2> QED BY <1>4, <1>5, <2>1
<1>9. StrictOrder(R, p.seen)
  BY <1>6, <1>7, <1>8 DEF StrictOrder
<1> QED BY <1>9 DEF R

\* The drawing order has every transaction of the pool once.
LEMMA PriorityOrder ==
  ASSUME NEW p, Sound(p), NEW height \in Nat
  PROVE  /\ ByPriority(p, height) \in Seq(PoolTxs)
         /\ Range(ByPriority(p, height)) = p.seen /\ Distinct(ByPriority(p, height))
         /\ \A i, j \in DOMAIN ByPriority(p, height) :
              i < j => Before(Rank(p, ByPriority(p, height)[i], height),
                              Rank(p, ByPriority(p, height)[j], height))
<1> DEFINE R == {z \in p.seen \X p.seen : Before(Rank(p, z[1], height), Rank(p, z[2], height))}
           Q(s) == \A i, j \in DOMAIN s : i < j => Before(Rank(p, s[i], height), Rank(p, s[j], height))
<1>1. IsFiniteSet(p.seen) /\ p.seen \subseteq PoolTxs /\ p.seen = Range(p.pending)
  BY SoundFacts DEF Sound
<1>2. StrictOrder(R, p.seen)
  BY RankOrders
<1>3. PICK s \in SetToSeqs(p.seen) : \A i, j \in DOMAIN s : i < j => <<s[i], s[j]>> \in R
  <2> HIDE DEF R
  <2> QED BY <1>1, <1>2, SortedExists
<1>4. \A i, j \in DOMAIN s : i < j => Before(Rank(p, s[i], height), Rank(p, s[j], height))
  BY <1>3
<1>5. Q(s)
  BY <1>4
<1>6. ByPriority(p, height) = CHOOSE order \in SetToSeqs(p.seen) : Q(order)
  BY <1>1, Zenon DEF ByPriority
<1> HIDE DEF R, Q
<1>7. ByPriority(p, height) \in SetToSeqs(p.seen) /\ Q(ByPriority(p, height))
  BY <1>3, <1>5, <1>6
<1>8. PICK o : o = ByPriority(p, height)
  OBVIOUS
<1>9. /\ o \in Seq(p.seen) /\ DOMAIN o = 1 .. Len(o) /\ Range(o) = p.seen
      /\ \A i, j \in DOMAIN o : o[i] = o[j] => i = j
  BY <1>1, <1>7, <1>8, SeqOfSet
<1>10. o \in Seq(PoolTxs)
  BY <1>1, <1>9
<1>11. Distinct(o)
  BY <1>9 DEF Distinct
<1> QED BY <1>7, <1>8, <1>9, <1>10, <1>11 DEF Q

\* A sequence without repetition, cut in two.
LEMMA CutInTwo ==
  ASSUME NEW T, NEW s \in Seq(T), Distinct(s), NEW n \in 0 .. Len(s)
  PROVE  /\ SubSeq(s, 1, n) \in Seq(T) /\ SubSeq(s, n + 1, Len(s)) \in Seq(T)
         /\ Len(SubSeq(s, 1, n)) = n
         /\ Distinct(SubSeq(s, 1, n)) /\ Distinct(SubSeq(s, n + 1, Len(s)))
         /\ Range(SubSeq(s, 1, n)) \subseteq Range(s)
         /\ Range(SubSeq(s, n + 1, Len(s))) = Range(s) \ Range(SubSeq(s, 1, n))
<1>1. PICK N \in Nat : N = Len(s)
  OBVIOUS
<1>2. PICK a : a = SubSeq(s, 1, n)
  OBVIOUS
<1>3. PICK b : b = SubSeq(s, n + 1, N)
  OBVIOUS
<1>4. a \in Seq(T) /\ Len(a) = n /\ \A i \in 1 .. n : a[i] = s[i]
  BY <1>1, <1>2
<1>5. b \in Seq(T) /\ Len(b) = N - n /\ \A i \in 1 .. (N - n) : b[i] = s[n + i]
  <2>1. n + 1 \in Int /\ n + 1 <= N + 1 /\ n \in Nat /\ N - n \in Nat
    BY <1>1
  <2>2. \A i \in 1 .. (N - n) : n + i \in 1 .. N /\ (n + 1) + i - 1 = n + i
    BY <1>1
  <2> QED BY <1>1, <1>3, <2>1, <2>2
<1>6. /\ Range(s) = {s[i] : i \in 1 .. N} /\ Range(a) = {a[i] : i \in 1 .. n}
      /\ Range(b) = {b[i] : i \in 1 .. (N - n)}
  BY <1>1, <1>4, <1>5, DistinctRange
<1>7. \A i, j \in 1 .. N : s[i] = s[j] => i = j
  BY <1>1 DEF Distinct
<1>8. Distinct(a)
  BY <1>1, <1>4, <1>7 DEF Distinct
<1>9. Distinct(b)
  <2> SUFFICES ASSUME NEW i \in 1 .. (N - n), NEW j \in 1 .. (N - n), b[i] = b[j] PROVE i = j
    BY <1>5 DEF Distinct
  <2>1. PICK k \in 1 .. N : k = n + i
    BY <1>1
  <2>2. PICK l \in 1 .. N : l = n + j
    BY <1>1
  <2>3. s[k] = s[l]
    BY <1>5, <2>1, <2>2
  <2> QED BY <1>1, <1>7, <2>1, <2>2, <2>3
<1>10. Range(a) \subseteq Range(s)
  BY <1>1, <1>4, <1>6
<1>11. Range(b) \subseteq Range(s) \ Range(a)
  <2> SUFFICES ASSUME NEW i \in 1 .. (N - n) PROVE b[i] \in Range(s) /\ b[i] \notin Range(a)
    BY <1>6
  <2>1. PICK k \in 1 .. N : k = n + i /\ b[i] = s[k]
    BY <1>1, <1>5
  <2>2. \A j \in 1 .. n : a[j] = s[j] /\ j \in 1 .. N /\ j # k
    BY <1>1, <1>4, <2>1
  <2> QED BY <1>6, <1>7, <2>1, <2>2
<1>12. Range(s) \ Range(a) \subseteq Range(b)
  <2> SUFFICES ASSUME NEW k \in 1 .. N, s[k] \notin Range(a) PROVE s[k] \in Range(b)
    BY <1>6
  <2>1. k \notin 1 .. n
    BY <1>4, <1>6
  <2>2. PICK i \in 1 .. (N - n) : k = n + i
    <3>1. k - n \in 1 .. (N - n) /\ k = n + (k - n)
      BY <1>1, <2>1
    <3> QED BY <3>1
  <2>3. b[i] = s[k]
    BY <1>5, <2>2
  <2> QED BY <1>6, <2>3
<1> QED BY <1>1, <1>2, <1>3, <1>4, <1>5, <1>8, <1>9, <1>10, <1>11, <1>12

\* Transactions parted into those kept and those dropped.
Parted(txs, z) ==
  /\ z.kept \in Seq(PoolTxs) /\ z.dropped \in Seq(PoolTxs)
  /\ Range(z.kept) \cup Range(z.dropped) = Range(txs)

\* antichain_project keeps a transaction or drops it.
LEMMA ProjectedParts ==
  ASSUME NEW txs \in Seq(PoolTxs)
  PROVE  Parted(txs, Projected(txs))
<1> DEFINE first == {i \in DOMAIN txs :
                       \A j \in 1..(i - 1) : txs[i].sender = 0 \/ txs[j].sender # txs[i].sender}
           rest == DOMAIN txs \ first
<1>1. Projected(txs) = [kept |-> Selected(txs, first), dropped |-> Selected(txs, rest)]
  BY DEF Projected
<1>2. /\ first \in SUBSET (1 .. Len(txs)) /\ rest \in SUBSET (1 .. Len(txs))
      /\ first \cup rest = 1 .. Len(txs)
  OBVIOUS
<1> HIDE DEF first, rest
<1>3. PICK a : a = Selected(txs, first)
  OBVIOUS
<1>4. PICK b : b = Selected(txs, rest)
  OBVIOUS
<1>5. a \in Seq(PoolTxs) /\ KeptOf(a, txs, first, Len(txs))
  BY <1>2, <1>3, SelectedKept
<1>6. b \in Seq(PoolTxs) /\ KeptOf(b, txs, rest, Len(txs))
  BY <1>2, <1>4, SelectedKept
<1>7. /\ Range(txs) = {txs[i] : i \in 1 .. Len(txs)} /\ Range(a) = {a[i] : i \in 1 .. Len(a)}
      /\ Range(b) = {b[i] : i \in 1 .. Len(b)}
  BY <1>5, <1>6, DistinctRange
<1>8. Range(a) \cup Range(b) \subseteq Range(txs)
  <2>1. \A k \in 1 .. Len(a) : \E i \in 1 .. Len(txs) : a[k] = txs[i]
    BY <1>2, <1>5 DEF KeptOf
  <2>2. \A k \in 1 .. Len(b) : \E i \in 1 .. Len(txs) : b[k] = txs[i]
    BY <1>2, <1>6 DEF KeptOf
  <2> QED BY <1>7, <2>1, <2>2
<1>9. Range(txs) \subseteq Range(a) \cup Range(b)
  <2> SUFFICES ASSUME NEW i \in 1 .. Len(txs) PROVE txs[i] \in Range(a) \cup Range(b)
    BY <1>7
  <2>0. i <= Len(txs)
    OBVIOUS
  <2>1. CASE i \in first
    BY <1>5, <1>7, <2>0, <2>1 DEF KeptOf
  <2>2. CASE i \in rest
    BY <1>6, <1>7, <2>0, <2>2 DEF KeptOf
  <2> QED BY <1>2, <2>1, <2>2
<1> QED BY <1>1, <1>3, <1>4, <1>5, <1>6, <1>8, <1>9 DEF Parted

\* An element appended adds itself to the range.
LEMMA AppendRange ==
  ASSUME NEW T, NEW s \in Seq(T), NEW x \in T
  PROVE  Append(s, x) \in Seq(T) /\ Range(Append(s, x)) = Range(s) \cup {x}
<1>1. PICK n \in Nat : n = Len(s)
  OBVIOUS
<1>2. PICK t : t = Append(s, x)
  OBVIOUS
<1>3. t \in Seq(T) /\ Len(t) = n + 1 /\ t[n + 1] = x /\ \A i \in 1 .. n : t[i] = s[i]
  BY <1>1, <1>2
<1>4. Range(s) = {s[i] : i \in 1 .. n} /\ Range(t) = {t[i] : i \in 1 .. (n + 1)}
  BY <1>1, <1>3, DistinctRange
<1>5. /\ n + 1 \in 1 .. (n + 1) /\ \A i \in 1 .. n : i \in 1 .. (n + 1)
      /\ \A i \in 1 .. (n + 1) : i = n + 1 \/ i \in 1 .. n
  BY <1>1
<1>6. Range(t) \subseteq Range(s) \cup {x}
  BY <1>3, <1>4, <1>5
<1>7. Range(s) \subseteq Range(t)
  BY <1>3, <1>4, <1>5
<1>8. x \in Range(t)
  BY <1>3, <1>4, <1>5
<1> QED BY <1>2, <1>3, <1>6, <1>7, <1>8

\* One step of the gas filter.
Filter(acc, tx) ==
  IF acc.gas + tx.gas > GasLimit
  THEN [acc EXCEPT !.dropped = Append(@, tx)]
  ELSE [acc EXCEPT !.kept = Append(@, tx), !.gas = @ + tx.gas]

Filters == [kept : Seq(PoolTxs), dropped : Seq(PoolTxs), gas : Nat]

\* One turn of the filter of create_proposal keeps or drops its transaction.
LEMMA FilterStep ==
  ASSUME NEW acc \in Filters, NEW tx \in PoolTxs
  PROVE  /\ Filter(acc, tx) \in Filters
         /\ Range(Filter(acc, tx).kept) \cup Range(Filter(acc, tx).dropped) =
              (Range(acc.kept) \cup Range(acc.dropped)) \cup {tx}
<1>1. tx.gas \in Nat
  BY TxTypes
<1>2. acc.kept \in Seq(PoolTxs) /\ acc.dropped \in Seq(PoolTxs) /\ acc.gas \in Nat
  BY DEF Filters
<1>3. PICK k : k = Append(acc.kept, tx)
  OBVIOUS
<1>4. PICK d : d = Append(acc.dropped, tx)
  OBVIOUS
<1>5. /\ k \in Seq(PoolTxs) /\ Range(k) = Range(acc.kept) \cup {tx}
      /\ d \in Seq(PoolTxs) /\ Range(d) = Range(acc.dropped) \cup {tx}
  BY <1>2, <1>3, <1>4, AppendRange
<1>6. CASE acc.gas + tx.gas > GasLimit
  <2>1. Filter(acc, tx) = [acc EXCEPT !.dropped = d]
    BY <1>4, <1>6 DEF Filter
  <2>2. /\ [acc EXCEPT !.dropped = d] \in Filters /\ [acc EXCEPT !.dropped = d].dropped = d
        /\ [acc EXCEPT !.dropped = d].kept = acc.kept
    BY <1>2, <1>5 DEF Filters
  <2> QED BY <1>5, <2>1, <2>2
<1>7. CASE ~(acc.gas + tx.gas > GasLimit)
  <2>1. Filter(acc, tx) = [acc EXCEPT !.kept = k, !.gas = acc.gas + tx.gas]
    BY <1>3, <1>7 DEF Filter
  <2>2. PICK r : r = [acc EXCEPT !.kept = k, !.gas = acc.gas + tx.gas]
    OBVIOUS
  <2>3. acc.gas + tx.gas \in Nat
    BY <1>1, <1>2
  <2>4. r \in Filters /\ r.kept = k /\ r.dropped = acc.dropped
    BY <1>2, <1>5, <2>2, <2>3 DEF Filters
  <2> QED BY <1>5, <2>1, <2>2, <2>4
<1> QED BY <1>6, <1>7

\* The gas filter drops or keeps every transaction.
LEMMA FilteredParts ==
  ASSUME NEW txs \in Seq(PoolTxs)
  PROVE  Parted(txs, Filtered(txs))
<1> DEFINE N == Len(txs)
           X == Filters
           p == [kept |-> <<>>, dropped |-> <<>>, gas |-> 0]
           step == [z \in X \X (1 .. N) |-> Filter(z[1], txs[z[2]])]
           a(h, s) == IF s = {} THEN p ELSE Filter(h[s \ {Max(s)}], txs[Max(s)])
           P(h) == h = [s \in SUBSET (1 .. N) |-> a(h, s)]
<1>1. N \in Nat /\ DOMAIN txs = 1 .. N /\ \A i \in 1 .. N : txs[i] \in PoolTxs
  OBVIOUS
<1>2. \A q \in X : \A i \in 1 .. N : Filter(q, txs[i]) \in X
  BY <1>1, FilterStep
<1>3. p \in X /\ Range(p.kept) = {} /\ Range(p.dropped) = {}
  BY DEF Filters, Range
<1>4. Filtered(txs) = (CHOOSE h : P(h))[1 .. N]
  BY <1>1, Zenon DEF Filtered, FoldLeft, MapThenFoldSet, Filter
<1>5. step \in [X \X (1 .. N) -> X]
  BY <1>2
<1> HIDE DEF p
<1>6. \E h : P(h)
  <2>1. PICK h : IsLeftFold(h, step, p, N) /\ \A s \in SUBSET (1 .. N) : h[s] \in X
    <3> HIDE DEF step, X, N
    <3> QED BY <1>1, <1>3, <1>5, LeftFoldTyped
  <2> DEFINE b(s) == IF s = {} THEN p ELSE step[<<h[s \ {Max(s)}], Max(s)>>]
  <2>2. ASSUME NEW s \in SUBSET (1 .. N) PROVE b(s) = a(h, s)
    <3>1. CASE s = {}
      BY <3>1
    <3>2. CASE s # {}
      <4>1. Max(s) \in 1 .. N /\ s \ {Max(s)} \in SUBSET (1 .. N)
        BY <1>1, <3>2, LastPosition
      <4>2. h[s \ {Max(s)}] \in X
        BY <2>1, <4>1
      <4> QED BY <3>2, <4>1, <4>2
    <3> QED BY <3>1, <3>2
  <2>3. h = [s \in SUBSET (1 .. N) |-> b(s)]
    BY <2>1, Zenon DEF IsLeftFold
  <2> HIDE DEF a, b, N
  <2>4. h = [s \in SUBSET (1 .. N) |-> a(h, s)]
    BY <2>2, <2>3
  <2> QED BY <2>4
<1>7. PICK h : P(h) /\ Filtered(txs) = h[1 .. N]
  <2>1. P(CHOOSE h : P(h))
    <3> HIDE DEF P
    <3> QED BY <1>6, Zenon
  <2> QED BY <1>4, <2>1, Zenon
<1>8. h[{}] = p /\ \A n \in 1 .. N : h[1 .. n] = Filter(h[1 .. (n - 1)], txs[n])
  <2>1. \A s \in SUBSET (1 .. N) : h[s] = a(h, s)
    <3> HIDE DEF a
    <3> QED BY <1>7
  <2>2. h[{}] = p
    BY <2>1
  <2>3. ASSUME NEW n \in 1 .. N PROVE h[1 .. n] = Filter(h[1 .. (n - 1)], txs[n])
    <3> HIDE DEF N
    <3>1. /\ 1 .. n \in SUBSET (1 .. N) /\ 1 .. n # {} /\ Max(1 .. n) = n
          /\ (1 .. n) \ {n} = 1 .. (n - 1)
      BY <1>1, PrefixOf
    <3> QED BY <2>1, <3>1
  <2> QED BY <2>2, <2>3
<1> DEFINE kept(n) == Range(h[1 .. n].kept) \cup Range(h[1 .. n].dropped)
           T == {n \in 0 .. N : h[1 .. n] \in X /\ kept(n) = {txs[i] : i \in 1 .. n}}
<1> HIDE DEF N, X
<1>9. 0 \in T
  <2>1. 1 .. 0 = {} /\ 0 \in 0 .. N
    BY <1>1
  <2>2. h[1 .. 0] = p
    BY <1>8, <2>1
  <2> QED BY <1>3, <2>1, <2>2
<1>10. ASSUME NEW n \in 0 .. (N - 1), n \in T PROVE n + 1 \in T
  <2>1. PICK m \in 1 .. N : m = n + 1 /\ m - 1 = n /\ m \in 0 .. N
    BY <1>1
  <2>2. h[1 .. m] = Filter(h[1 .. n], txs[m]) /\ txs[m] \in PoolTxs
    BY <1>1, <1>8, <2>1
  <2>3. h[1 .. n] \in X
    BY <1>10
  <2>4. h[1 .. m] \in X /\ kept(m) = kept(n) \cup {txs[m]}
    BY <2>2, <2>3, FilterStep DEF X
  <2>5. kept(n) = {txs[i] : i \in 1 .. n}
    BY <1>10
  <2> HIDE DEF kept
  <2>6. kept(m) = {txs[i] : i \in 1 .. m}
    <3>1. \A i \in 1 .. m : i = m \/ i \in 1 .. n
      BY <1>1, <2>1
    <3>2. m \in 1 .. m /\ \A i \in 1 .. n : i \in 1 .. m
      BY <1>1, <2>1
    <3> QED BY <2>4, <2>5, <3>1, <3>2
  <2> QED BY <2>1, <2>4, <2>6
<1>11. N \in T
  <2> HIDE DEF T
  <2>1. \A n \in 0 .. N : n \in T
    BY <1>1, <1>9, <1>10, UpTo
  <2> QED BY <1>1, <2>1
<1>12. Range(txs) = {txs[i] : i \in 1 .. N}
  BY <1>1 DEF Range
<1> QED BY <1>7, <1>11, <1>12 DEF Parted, X, Filters

\* Reversed, a sequence has the same elements.
LEMMA ReverseRange ==
  ASSUME NEW T, NEW s \in Seq(T)
  PROVE  Reverse(s) \in Seq(T) /\ Range(Reverse(s)) = Range(s)
<1>1. PICK n \in Nat : n = Len(s)
  OBVIOUS
<1>2. PICK r : r = Reverse(s)
  OBVIOUS
<1>3. r = [i \in 1 .. n |-> s[(n - i) + 1]]
  BY <1>1, <1>2 DEF Reverse
<1>4. \A i \in 1 .. n : (n - i) + 1 \in 1 .. n /\ (n - ((n - i) + 1)) + 1 = i
  BY <1>1
<1>5. r \in [1 .. n -> T]
  BY <1>1, <1>3, <1>4
<1>6. r \in Seq(T) /\ Len(r) = n
  BY <1>1, <1>5
<1>7. Range(s) = {s[i] : i \in 1 .. n} /\ Range(r) = {r[i] : i \in 1 .. n}
  BY <1>1, <1>6, DistinctRange
<1>8. \A i \in 1 .. n : r[i] \in Range(s) /\ s[i] = r[(n - i) + 1]
  BY <1>3, <1>4, <1>7
<1>9. Range(r) \subseteq Range(s)
  BY <1>7, <1>8
<1>10. Range(s) \subseteq Range(r)
  BY <1>4, <1>7, <1>8
<1> QED BY <1>2, <1>6, <1>9, <1>10

\* The parts of a sequence cut in two.
LEMMA CutRange ==
  ASSUME NEW T, NEW s \in Seq(T), NEW n \in 0 .. Len(s)
  PROVE  /\ SubSeq(s, 1, n) \in Seq(T) /\ SubSeq(s, n + 1, Len(s)) \in Seq(T)
         /\ Range(SubSeq(s, 1, n)) \cup Range(SubSeq(s, n + 1, Len(s))) = Range(s)
<1>1. PICK N \in Nat : N = Len(s)
  OBVIOUS
<1>2. PICK a : a = SubSeq(s, 1, n)
  OBVIOUS
<1>3. PICK b : b = SubSeq(s, n + 1, N)
  OBVIOUS
<1>4. a \in Seq(T) /\ Len(a) = n /\ \A i \in 1 .. n : a[i] = s[i]
  BY <1>1, <1>2
<1>5. b \in Seq(T) /\ Len(b) = N - n /\ \A i \in 1 .. (N - n) : b[i] = s[n + i]
  <2>1. n + 1 \in Int /\ n + 1 <= N + 1 /\ n \in Nat /\ N - n \in Nat
    BY <1>1
  <2>2. \A i \in 1 .. (N - n) : n + i \in 1 .. N /\ (n + 1) + i - 1 = n + i
    BY <1>1
  <2> QED BY <1>1, <1>3, <2>1, <2>2
<1>6. /\ Range(s) = {s[i] : i \in 1 .. N} /\ Range(a) = {a[i] : i \in 1 .. n}
      /\ Range(b) = {b[i] : i \in 1 .. (N - n)}
  BY <1>1, <1>4, <1>5, DistinctRange
<1>7. \A i \in 1 .. n : a[i] = s[i] /\ i \in 1 .. N
  BY <1>1, <1>4
<1>8. \A i \in 1 .. (N - n) : b[i] = s[n + i] /\ n + i \in 1 .. N
  BY <1>1, <1>5
<1>9. \A k \in 1 .. N : k \in 1 .. n \/ (k - n \in 1 .. (N - n) /\ b[k - n] = s[k])
  <2> SUFFICES ASSUME NEW k \in 1 .. N, k \notin 1 .. n
               PROVE  k - n \in 1 .. (N - n) /\ b[k - n] = s[k]
    OBVIOUS
  <2>1. PICK i \in 1 .. (N - n) : i = k - n /\ k = n + i
    BY <1>1
  <2> QED BY <1>8, <2>1
<1>10. \A k \in 1 .. N : s[k] \in Range(a) \cup Range(b)
  BY <1>6, <1>7, <1>9
<1>11. Range(a) \cup Range(b) \subseteq Range(s)
  BY <1>6, <1>7, <1>8
<1> QED BY <1>1, <1>2, <1>3, <1>4, <1>5, <1>6, <1>10, <1>11

\* The size limit cuts the end off.
LEMMA TrimmedParts ==
  ASSUME NEW txs \in Seq(PoolTxs)
  PROVE  Parted(txs, Trimmed(txs))
<1> DEFINE fits == {n \in 1..Len(txs) : Bytes(SubSeq(txs, 1, n)) <= MAX_BLOCK_SIZE_BYTES}
           n == IF txs = <<>> THEN 0 ELSE Max(fits \cup {1})
<1>0. Len(txs) \in Nat
  OBVIOUS
<1>1. n \in 0 .. Len(txs)
  <2>1. CASE txs = <<>>
    BY <1>0, <2>1
  <2>2. CASE txs # <<>>
    <3>1. Len(txs) >= 1
      BY <2>2
    <3>2. fits \cup {1} \in SUBSET (1 .. Len(txs)) /\ fits \cup {1} # {}
      BY <1>0, <3>1
    <3> HIDE DEF fits
    <3>3. Max(fits \cup {1}) \in 1 .. Len(txs)
      BY <1>0, <3>2, LastPosition
    <3> QED BY <1>0, <2>2, <3>3
  <2> QED BY <2>1, <2>2
<1>2. Trimmed(txs) = [kept |-> SubSeq(txs, 1, n), dropped |-> Reverse(SubSeq(txs, n + 1, Len(txs)))]
  BY DEF Trimmed
<1> HIDE DEF n
<1>3. PICK a : a = SubSeq(txs, 1, n)
  OBVIOUS
<1>4. PICK b : b = SubSeq(txs, n + 1, Len(txs))
  OBVIOUS
<1>5. a \in Seq(PoolTxs) /\ b \in Seq(PoolTxs) /\ Range(a) \cup Range(b) = Range(txs)
  BY <1>1, <1>3, <1>4, CutRange
<1>6. Reverse(b) \in Seq(PoolTxs) /\ Range(Reverse(b)) = Range(b)
  BY <1>5, ReverseRange
<1> QED BY <1>2, <1>3, <1>4, <1>5, <1>6 DEF Parted

\* The elements of a concatenation.
LEMMA ConcatRange ==
  ASSUME NEW T, NEW s \in Seq(T), NEW t \in Seq(T)
  PROVE  s \o t \in Seq(T) /\ Range(s \o t) = Range(s) \cup Range(t)
<1>1. PICK m \in Nat : m = Len(s)
  OBVIOUS
<1>2. PICK n \in Nat : n = Len(t)
  OBVIOUS
<1>3. PICK u : u = s \o t
  OBVIOUS
<1>4. /\ u \in Seq(T) /\ Len(u) = m + n /\ \A i \in 1 .. m : u[i] = s[i]
      /\ \A i \in (m + 1) .. (m + n) : u[i] = t[i - m]
  BY <1>1, <1>2, <1>3
<1>5. /\ Range(s) = {s[i] : i \in 1 .. m} /\ Range(t) = {t[i] : i \in 1 .. n}
      /\ Range(u) = {u[i] : i \in 1 .. (m + n)}
  BY <1>1, <1>2, <1>4, DistinctRange
<1>6. \A i \in 1 .. m : u[i] = s[i] /\ i \in 1 .. (m + n)
  BY <1>1, <1>2, <1>4
<1>7. \A i \in 1 .. n : u[m + i] = t[i] /\ m + i \in 1 .. (m + n)
  <2> SUFFICES ASSUME NEW i \in 1 .. n PROVE u[m + i] = t[i] /\ m + i \in 1 .. (m + n)
    OBVIOUS
  <2>1. PICK k \in (m + 1) .. (m + n) : k = m + i /\ k - m = i
    BY <1>1, <1>2
  <2> QED BY <1>4, <2>1
<1>8. \A k \in 1 .. (m + n) : k \in 1 .. m \/ \E i \in 1 .. n : k = m + i
  <2> SUFFICES ASSUME NEW k \in 1 .. (m + n), k \notin 1 .. m PROVE \E i \in 1 .. n : k = m + i
    OBVIOUS
  <2>1. k - m \in 1 .. n /\ k = m + (k - m)
    BY <1>1, <1>2
  <2> QED BY <2>1
<1>9. Range(u) \subseteq Range(s) \cup Range(t)
  BY <1>5, <1>6, <1>7, <1>8
<1>10. Range(s) \cup Range(t) \subseteq Range(u)
  BY <1>5, <1>6, <1>7
<1> QED BY <1>3, <1>4, <1>9, <1>10

-----------------------------------------------------------------------------
(* The invariant.                                                          *)

\* The pool is sound, the block of the round has transactions of the system,
\* and nothing is stranded.
PoolInv ==
  /\ Sound(pool) /\ poolHeight \in Nat
  /\ held \in SUBSET Seq(PoolTxs) /\ \A proposal, other \in held : proposal = other
  /\ NothingStranded

\* set_epoch keeps the pool sound and drops just what expired.
LEMMA AtEpochSound ==
  ASSUME NEW p, Sound(p), NEW epoch \in Nat
  PROVE  Sound(AtEpoch(p, epoch)) /\ AtEpoch(p, epoch).seen = p.seen \ Expired(p, epoch)
<1> DEFINE gone == Expired(p, epoch)
           I == {i \in DOMAIN p.pending : p.pending[i] \notin gone}
<1>1. AtEpoch(p, epoch) = [WithoutTxs(p, gone, Selected(p.pending, I)) EXCEPT !.current_epoch = epoch]
  BY DEF AtEpoch
<1>2. gone \in SUBSET p.seen
  BY DEF Expired
<1> HIDE DEF gone
<1>3. /\ p.pending \in Seq(PoolTxs) /\ p.seen = Range(p.pending) /\ Distinct(p.pending)
      /\ Range(p.pending) = {p.pending[i] : i \in 1 .. Len(p.pending)}
      /\ DOMAIN p.pending = 1 .. Len(p.pending) /\ Len(p.pending) \in Nat
  BY SoundFacts, DistinctRange DEF Sound
<1>4. I \in SUBSET (1 .. Len(p.pending))
  BY <1>3
<1>5. PICK s : s = Selected(p.pending, I)
  OBVIOUS
<1>6. s \in Seq(PoolTxs) /\ KeptOf(s, p.pending, I, Len(p.pending))
  <2> HIDE DEF I
  <2> QED BY <1>3, <1>4, <1>5, SelectedKept
<1>7. Distinct(s)
  BY <1>3, <1>6 DEF KeptOf, Distinct
<1>8. Range(s) = {s[i] : i \in 1 .. Len(s)}
  BY <1>6, DistinctRange
<1>9. Range(s) \subseteq p.seen \ gone
  <2>1. \A k \in 1 .. Len(s) : \E i \in I : s[k] = p.pending[i]
    BY <1>6 DEF KeptOf
  <2>2. \A i \in I : p.pending[i] \in p.seen \ gone
    BY <1>3
  <2> HIDE DEF I
  <2> QED BY <1>8, <2>1, <2>2
<1>10. p.seen \ gone \subseteq Range(s)
  <2> SUFFICES ASSUME NEW i \in 1 .. Len(p.pending), p.pending[i] \notin gone
               PROVE  p.pending[i] \in Range(s)
    BY <1>3
  <2>1. i \in I /\ i <= Len(p.pending)
    BY <1>3
  <2> HIDE DEF I
  <2> QED BY <1>6, <1>8, <2>1 DEF KeptOf
<1>11. PICK q : q = WithoutTxs(p, gone, s)
  OBVIOUS
<1>12. Sound(q) /\ q.seen = p.seen \ gone
  BY <1>2, <1>6, <1>7, <1>9, <1>10, <1>11, WithoutSound
<1>13. PICK r : r = [q EXCEPT !.current_epoch = epoch]
  OBVIOUS
<1>14. /\ r \in Pools /\ r.pending = q.pending /\ r.seen = q.seen /\ r.total_bytes = q.total_bytes
       /\ r.account_tx_count = q.account_tx_count /\ r.tx_submit_epoch = q.tx_submit_epoch
  BY <1>12, <1>13 DEF Sound, Pools
<1>15. \A a : CountOf(r, a) = CountOf(q, a)
  BY <1>14 DEF CountOf
<1>16. Sound(r)
  BY <1>12, <1>14, <1>15 DEF Sound
<1> QED BY <1>1, <1>5, <1>11, <1>12, <1>13, <1>14, <1>16 DEF gone

\* create_proposal: what is drawn is in the block or is given back.
LEMMA ProposalKeepsAll ==
  ASSUME PoolInv, NEW antichain \in AntichainModes, CreateProposal(antichain)
  PROVE  /\ Sound(pool') /\ held' \in SUBSET Seq(PoolTxs)
         /\ \A proposal, other \in held' : proposal = other
         /\ pool.seen \subseteq pool'.seen \cup Held'
<1> DEFINE order    == ByPriority(pool, poolHeight)
           count    == IF Len(order) < MAX_TXS_PER_BLOCK THEN Len(order) ELSE MAX_TXS_PER_BLOCK
           drawn    == SubSeq(order, 1, count)
           left     == SubSeq(order, count + 1, Len(order))
           drained  == WithoutTxs(pool, Range(drawn), left)
           project  == IF antichain THEN Projected(drawn) ELSE [kept |-> drawn, dropped |-> <<>>]
           filter   == Filtered(project.kept)
           trim     == Trimmed(filter.kept)
           back     == project.dropped \o filter.dropped \o trim.dropped
<1>1. pool' = GiveBack(drained, back) /\ held' = {trim.kept}
  BY DEF CreateProposal
<1>2. Sound(pool) /\ poolHeight \in Nat
  BY DEF PoolInv
<1>3. order \in Seq(PoolTxs) /\ Range(order) = pool.seen /\ Distinct(order)
  BY <1>2, PriorityOrder
<1> HIDE DEF order
<1>4. count \in 0 .. Len(order)
  BY <1>3, MempoolAssumption
<1> HIDE DEF count
<1>5. /\ drawn \in Seq(PoolTxs) /\ left \in Seq(PoolTxs) /\ Distinct(left)
      /\ Range(drawn) \subseteq pool.seen /\ Range(left) = pool.seen \ Range(drawn)
  BY <1>3, <1>4, CutInTwo
<1> HIDE DEF drawn, left
<1>6. Sound(drained) /\ drained.seen = pool.seen \ Range(drawn)
  BY <1>2, <1>5, WithoutSound
<1> HIDE DEF drained
<1>7. Parted(drawn, project)
  <2>1. CASE antichain
    BY <1>5, <2>1, ProjectedParts
  <2>2. CASE ~antichain
    <3>1. project = [kept |-> drawn, dropped |-> <<>>]
      BY <2>2
    <3>2. Range(<<>>) = {} /\ <<>> \in Seq(PoolTxs)
      BY DEF Range
    <3> HIDE DEF project
    <3> QED BY <1>5, <3>1, <3>2 DEF Parted
  <2> QED BY <2>1, <2>2
<1> HIDE DEF project
<1>8. Parted(project.kept, filter)
  BY <1>7, FilteredParts DEF Parted
<1> HIDE DEF filter
<1>9. Parted(filter.kept, trim)
  BY <1>8, TrimmedParts DEF Parted
<1> HIDE DEF trim
<1>10. PICK b : b = project.dropped \o filter.dropped
  OBVIOUS
<1>11. b \in Seq(PoolTxs) /\ Range(b) = Range(project.dropped) \cup Range(filter.dropped)
  BY <1>7, <1>8, <1>10, ConcatRange DEF Parted
<1>12. back = b \o trim.dropped
  BY <1>10
<1> HIDE DEF back
<1>13. back \in Seq(PoolTxs) /\ Range(back) = Range(b) \cup Range(trim.dropped)
  BY <1>9, <1>11, <1>12, ConcatRange DEF Parted
<1>14. Range(trim.kept) \cup Range(back) = Range(drawn)
  BY <1>7, <1>8, <1>9, <1>11, <1>13 DEF Parted
<1>15. Sound(pool') /\ pool'.seen = drained.seen \cup Range(back)
  BY <1>1, <1>2, <1>5, <1>6, <1>13, <1>14, GiveBackAll
<1>16. held' \in SUBSET Seq(PoolTxs) /\ Held' = Range(trim.kept)
  BY <1>1, <1>9 DEF Parted, Held
<1> QED BY <1>1, <1>6, <1>14, <1>15, <1>16

\* Every step keeps the invariant.
LEMMA PoolStep ==
  ASSUME PoolInv, [MempoolNext]_poolVars
  PROVE  PoolInv'
<1>0. /\ Sound(pool) /\ poolHeight \in Nat /\ held \in SUBSET Seq(PoolTxs)
      /\ \A proposal, other \in held : proposal = other
      /\ owed \subseteq pool.seen \cup Held \cup discarded
  BY DEF PoolInv, NothingStranded
<1>1. CASE UNCHANGED poolVars
  BY <1>1, <1>0 DEF poolVars, PoolInv, NothingStranded, Held
<1>2. ASSUME NEW tx \in PoolTxs, Submit(tx, AtFront(pool, tx)) \/ Submit(tx, AtBack(pool, tx))
      PROVE  PoolInv'
  <2>1. /\ Admits(pool, tx) /\ (pool' = AtFront(pool, tx) \/ pool' = AtBack(pool, tx))
        /\ owed' = owed \cup {tx} /\ discarded' = discarded \ {tx}
        /\ held' = held /\ poolHeight' = poolHeight
    BY <1>2 DEF Submit
  <2>2. Sound(pool') /\ pool'.seen = pool.seen \cup {tx}
    <3>1. CASE pool' = AtFront(pool, tx)
      BY <1>0, <2>1, <3>1, FrontSound
    <3>2. CASE pool' = AtBack(pool, tx)
      BY <1>0, <2>1, <3>2, BackSound
    <3> QED BY <2>1, <3>1, <3>2
  <2>3. Held' = Held
    BY <2>1 DEF Held
  <2> QED BY <1>0, <2>1, <2>2, <2>3 DEF PoolInv, NothingStranded
<1>3. ASSUME NEW antichain \in AntichainModes, CreateProposal(antichain) PROVE PoolInv'
  <2>1. /\ Sound(pool') /\ held' \in SUBSET Seq(PoolTxs)
        /\ \A proposal, other \in held' : proposal = other
        /\ pool.seen \subseteq pool'.seen \cup Held'
    BY <1>3, ProposalKeepsAll
  <2>2. held = {} /\ poolHeight' = poolHeight /\ owed' = owed /\ discarded' = discarded
    BY <1>3 DEF CreateProposal
  <2>3. Held = {}
    BY <2>2 DEF Held
  <2> QED BY <1>0, <2>1, <2>2, <2>3 DEF PoolInv, NothingStranded
<1>4. ASSUME NEW proposal \in ForeignBlocks, ReceiveProposal(proposal) PROVE PoolInv'
  <2>1. /\ held = {} /\ held' = {proposal} /\ pool' = pool /\ poolHeight' = poolHeight
        /\ owed' = owed /\ discarded' = discarded
    BY <1>4 DEF ReceiveProposal
  <2>2. Held = {} /\ proposal \in Seq(PoolTxs)
    BY <2>1, MempoolAssumption DEF Held
  <2> QED BY <1>0, <2>1, <2>2 DEF PoolInv, NothingStranded
<1>5. CASE ReturnProposal
  <2>1. PICK proposal \in held : pool' = GiveBack(pool, Reverse(proposal))
    BY <1>5 DEF ReturnProposal
  <2>2. /\ held' = {} /\ poolHeight' = poolHeight /\ owed' = owed
        /\ discarded' = discarded \cup {tx \in (Held \cap owed) \ pool'.seen : ~Admits(pool', tx)}
    BY <1>5 DEF ReturnProposal
  <2>3. proposal \in Seq(PoolTxs) /\ Held = Range(proposal)
    BY <1>0, <2>1 DEF Held
  <2>4. Reverse(proposal) \in Seq(PoolTxs) /\ Range(Reverse(proposal)) = Held
    BY <2>3, ReverseRange
  <2>5. /\ Sound(pool') /\ pool.seen \subseteq pool'.seen
        /\ \A tx \in Held : tx \in pool'.seen \/ ~Admits(pool', tx)
    BY <1>0, <2>1, <2>4, GiveBackSound
  <2> QED BY <1>0, <2>2, <2>5 DEF PoolInv, NothingStranded
<1>6. CASE RoundSkip
  <2>1. /\ held' = {} /\ discarded' = discarded \cup ((Held \cap owed) \ pool.seen)
        /\ pool' = pool /\ poolHeight' = poolHeight /\ owed' = owed
    BY <1>6 DEF RoundSkip
  <2> QED BY <1>0, <2>1 DEF PoolInv, NothingStranded
<1>7. ASSUME NEW proposal \in held \cup ForeignBlocks, CommitProposal(proposal) PROVE PoolInv'
  <2>1. /\ pool' = AtEpoch(pool, poolHeight) /\ poolHeight' = poolHeight + 1 /\ held' = {}
        /\ owed' = (owed \ Range(proposal)) \ Expired(pool, poolHeight)
        /\ discarded' = (discarded \cup (Held \ pool'.seen)) \cap owed'
    BY <1>7 DEF CommitProposal
  <2>2. Sound(pool') /\ pool'.seen = pool.seen \ Expired(pool, poolHeight)
    BY <1>0, <2>1, AtEpochSound
  <2>3. poolHeight' \in Nat
    BY <1>0, <2>1
  <2> QED BY <1>0, <2>1, <2>2, <2>3 DEF PoolInv, NothingStranded
<1> QED BY <1>1, <1>2, <1>3, <1>4, <1>5, <1>6, <1>7 DEF MempoolNext

\* The pool starts empty.
LEMMA PoolStart ==
  ASSUME MempoolInit
  PROVE  PoolInv
<1>1. PICK e : e = {}
  OBVIOUS
<1>2. /\ pool \in Pools /\ pool.pending = <<>> /\ pool.seen = {} /\ pool.total_bytes = 0
      /\ pool.account_tx_count = None /\ pool.tx_submit_epoch = None
  <2>1. None \in [{} -> Nat]
    BY DEF None
  <2>2. None \in Maps(Nat \ {0}, Nat) /\ None \in Maps(PoolTxs, Nat)
    BY <2>1 DEF Maps
  <2> QED BY <2>2 DEF MempoolInit, Pools
<1>3. DOMAIN None = {}
  BY DEF None
<1>4. Range(<<>>) = {} /\ Distinct(<<>>) /\ Len(<<>>) = 0
  BY DEF Range, Distinct
<1>5. SumOver(Sizes, {}) = 0
  BY SumEmpty
<1>6. ASSUME NEW a \in Nat \ {0} PROVE CountOf(pool, a) = 0 /\ Cardinality(From({}, a)) = 0
  <2>1. From({}, a) = {}
    BY DEF From
  <2> QED BY <1>2, <1>3, <2>1, FS_EmptySet DEF CountOf
<1>7. Sound(pool)
  BY <1>2, <1>3, <1>4, <1>5, <1>6, MempoolAssumption DEF Sound
<1> QED BY <1>7 DEF MempoolInit, PoolInv, NothingStranded

\* The inductive invariant of the pool: queue and indices fit together through
\* submit, submit_priority, create_proposal, advance_round and set_epoch, and no
\* transaction is stranded.
THEOREM PoolInvariant == MempoolSpec => []PoolInv
<1>1. MempoolInit => PoolInv
  BY PoolStart
<1>2. PoolInv /\ [MempoolNext]_poolVars => PoolInv'
  BY PoolStep
<1> QED BY <1>1, <1>2, PTL DEF MempoolSpec

\* The indices of the pool (seen, bytes, counts per account, submission epochs)
\* agree with its queue and the caps hold, whatever is submitted, drained,
\* given back and evicted.
THEOREM PoolConsistentHolds == MempoolSpec => []PoolConsistent
<1>1. PoolInv => PoolConsistent
  <2> SUFFICES ASSUME PoolInv PROVE PoolConsistent
    OBVIOUS
  <2>1. Sound(pool)
    BY DEF PoolInv
  <2>2. Cardinality(pool.seen) = Len(pool.pending) /\ pool.pending \in Seq(PoolTxs)
    BY <2>1, SoundFacts
  <2>3. pool.total_bytes = Bytes(pool.pending)
    BY <2>1, <2>2, BytesAre DEF Sound
  <2>4. ASSUME NEW a \in {tx.sender : tx \in PoolTxs} \ {0}
        PROVE  CountOf(pool, a) = Cardinality({tx \in pool.seen : tx.sender = a})
    <3>1. a \in Nat \ {0}
      BY TxTypes
    <3> QED BY <2>1, <3>1 DEF Sound, From
  <2> QED BY <2>1, <2>2, <2>3, <2>4 DEF Sound, PoolConsistent
<1> QED BY <1>1, PoolInvariant, PTL

\* A transaction that create_proposal draws is in the block it proposes or back
\* in the pool, and a block that fails gives back what the pool still admits.
THEOREM NothingStrandedHolds == MempoolSpec => []NothingStranded
<1>1. PoolInv => NothingStranded
  BY DEF PoolInv
<1> QED BY <1>1, PoolInvariant, PTL

-----------------------------------------------------------------------------
(* The StateDB.                                                            *)

AccountRecords == [balance : Nat, nonce : Nat, deposit : Nat]
Accts == Maps(Accounts, AccountRecords)
StakeRecords == [owner : Accounts, amount : Nat, unbonding : Nat]
Stakes == Maps(StakeIds, StakeRecords)
Dbs == [accounts : Accts, objects : Maps(ObjIds, Nat), ghosts : Maps(ObjIds, BOOLEAN),
        stakes : Stakes]

\* IsMap as membership in a set of maps.
LEMMA MapIs ==
  ASSUME NEW f, NEW K, NEW V
  PROVE  IsMap(f, K, V) <=> f \in Maps(K, V)
<1>1. ASSUME IsMap(f, K, V) PROVE f \in Maps(K, V)
  BY <1>1 DEF IsMap, Maps
<1>2. ASSUME f \in Maps(K, V) PROVE IsMap(f, K, V)
  <2>1. PICK D \in SUBSET K : f \in [D -> V]
    BY <1>2 DEF Maps
  <2> QED BY <2>1 DEF IsMap
<1> QED BY <1>1, <1>2

\* A map stays one when a key is inserted or removed.
LEMMA MapFacts ==
  ASSUME NEW K, NEW V, NEW f \in Maps(K, V)
  PROVE  /\ DOMAIN f \subseteq K /\ f \in [DOMAIN f -> V] /\ f = [x \in DOMAIN f |-> f[x]]
         /\ \A x \in DOMAIN f : f[x] \in V
         /\ \A x \in K, v \in V : With(f, x, v) \in Maps(K, V)
         /\ \A S : Less(f, S) \in Maps(K, V)
<1>1. PICK D \in SUBSET K : f \in [D -> V]
  BY DEF Maps
<1>2. ASSUME NEW x \in K, NEW v \in V PROVE With(f, x, v) \in Maps(K, V)
  <2>1. D \cup {x} \in SUBSET K
    OBVIOUS
  <2>2. With(f, x, v) \in [D \cup {x} -> V]
    BY <1>1 DEF With
  <2> QED BY <2>1, <2>2 DEF Maps
<1>3. ASSUME NEW S PROVE Less(f, S) \in Maps(K, V)
  <2>1. D \ S \in SUBSET K
    OBVIOUS
  <2>2. Less(f, S) \in [D \ S -> V]
    BY <1>1 DEF Less
  <2> QED BY <2>1, <2>2 DEF Maps
<1> QED BY <1>1, <1>2, <1>3

\* A StateDB is a record of four maps.
LEMMA DbIs ==
  ASSUME NEW d, IsStateDb(d)
  PROVE  d \in Dbs
<1>1. /\ d.accounts \in Accts /\ d.objects \in Maps(ObjIds, Nat)
      /\ d.ghosts \in Maps(ObjIds, BOOLEAN) /\ d.stakes \in Stakes
  BY MapIs DEF IsStateDb, Accts, Stakes, AccountRecords, StakeRecords
<1>2. d = [accounts |-> d.accounts, objects |-> d.objects, ghosts |-> d.ghosts, stakes |-> d.stakes]
  BY DEF IsStateDb
<1> QED BY <1>1, <1>2 DEF Dbs

\* The fields of a transaction.
LEMMA TxFields ==
  ASSUME NEW tx \in Txs
  PROVE  /\ tx.kind \in Kinds /\ tx.amount \in Nat /\ tx.nonce \in Nat /\ tx.signed \in BOOLEAN
         /\ (tx.kind # "Refresh" => tx.from \in Accounts)
         /\ (tx.kind \in {"Transfer", "Refund"} => tx.to \in Accounts)
         /\ (tx.kind \in {"CreateObject", "Refresh"} => tx.id \in ObjIds)
         /\ Gas[tx.kind] \in Nat /\ Fee(tx) \in Nat
<1>1. /\ tx.kind \in Kinds /\ tx.amount \in Nat /\ tx.nonce \in Nat /\ tx.signed \in BOOLEAN
      /\ (tx.kind # "Refresh" => tx.from \in Accounts)
      /\ (tx.kind \in {"Transfer", "Refund"} => tx.to \in Accounts)
      /\ (tx.kind \in {"CreateObject", "Refresh"} => tx.id \in ObjIds)
  BY ExecutorAssumption
<1>2. Gas[tx.kind] \in Nat /\ ExtraFee[tx.kind] \in Nat /\ base_fee \in Nat
  BY <1>1, ExecutorAssumption
<1>3. Fee(tx) \in Nat
  BY <1>2 DEF Fee
<1> QED BY <1>1, <1>2, <1>3

\* What an account read from a state is.
LEMMA AccountType ==
  ASSUME NEW s, s.accounts \in Accts, NEW a
  PROVE  Account(s, a) \in AccountRecords
<1>1. \A x \in DOMAIN s.accounts : s.accounts[x] \in AccountRecords
  BY MapFacts DEF Accts
<1> QED BY <1>1 DEF Account, AccountRecords

\* Storing an account changes that account alone.
LEMMA StoreFacts ==
  ASSUME NEW d \in Dbs, NEW a \in Accounts, NEW x \in AccountRecords
  PROVE  /\ Store(d, a, x) \in Dbs
         /\ Store(d, a, x).accounts = With(d.accounts, a, x)
         /\ Store(d, a, x).objects = d.objects /\ Store(d, a, x).ghosts = d.ghosts
         /\ Store(d, a, x).stakes = d.stakes
         /\ \A b : Account(Store(d, a, x), b) = IF b = a THEN x ELSE Account(d, b)
<1>1. PICK m : m = With(d.accounts, a, x)
  OBVIOUS
<1>2. m \in Accts
  BY <1>1, MapFacts DEF Dbs, Accts
<1>3. PICK e : e = [d EXCEPT !.accounts = m]
  OBVIOUS
<1>4. Store(d, a, x) = e
  BY <1>1, <1>3 DEF Store
<1>5. e \in Dbs /\ e.accounts = m /\ e.objects = d.objects /\ e.ghosts = d.ghosts /\ e.stakes = d.stakes
  BY <1>2, <1>3 DEF Dbs
<1>6. ASSUME NEW b PROVE Account(e, b) = IF b = a THEN x ELSE Account(d, b)
  BY <1>1, <1>5 DEF Account, With
<1> QED BY <1>1, <1>4, <1>5, <1>6

-----------------------------------------------------------------------------
(* The part of a state that some keys name.                                *)

Only(f, K) == [x \in DOMAIN f \cap K |-> f[x]]

\* What populate_from copies into an overlay.
LEMMA PopulatedIs ==
  ASSUME NEW d, NEW K
  PROVE  Populated(d, K) = [accounts |-> Only(d.accounts, K), objects |-> Only(d.objects, K),
                            ghosts |-> Only(d.ghosts, K)]
BY DEF Populated, Only

\* Inserting a key, seen through a set of keys.
LEMMA OnlyWith ==
  ASSUME NEW f, NEW K, NEW x, NEW v
  PROVE  /\ x \in K => Only(With(f, x, v), K) = With(Only(f, K), x, v)
         /\ x \notin K => Only(With(f, x, v), K) = Only(f, K)
<1>1. ASSUME x \in K PROVE Only(With(f, x, v), K) = With(Only(f, K), x, v)
  <2> DEFINE m == Only(With(f, x, v), K)
             n == With(Only(f, K), x, v)
  <2>1. DOMAIN m = DOMAIN n
    BY <1>1 DEF Only, With
  <2>2. \A y \in DOMAIN m : m[y] = n[y]
    BY <1>1 DEF Only, With
  <2>3. m = [y \in DOMAIN m |-> m[y]] /\ n = [y \in DOMAIN n |-> n[y]]
    BY DEF Only, With
  <2> HIDE DEF m, n
  <2>4. m = n
    BY <2>1, <2>2, <2>3
  <2> QED BY <2>4 DEF m, n
<1>2. ASSUME x \notin K PROVE Only(With(f, x, v), K) = Only(f, K)
  <2> DEFINE m == Only(With(f, x, v), K)
             n == Only(f, K)
  <2>1. DOMAIN m = DOMAIN n
    BY <1>2 DEF Only, With
  <2>2. \A y \in DOMAIN m : m[y] = n[y]
    BY <1>2 DEF Only, With
  <2>3. m = [y \in DOMAIN m |-> m[y]] /\ n = [y \in DOMAIN n |-> n[y]]
    BY DEF Only, With
  <2> HIDE DEF m, n
  <2>4. m = n
    BY <2>1, <2>2, <2>3
  <2> QED BY <2>4 DEF m, n
<1> QED BY <1>1, <1>2

\* The same for the mark of a ghost that was removed.
LEMMA OnlyMarked ==
  ASSUME NEW f, NEW K, NEW x
  PROVE  /\ x \in K => Only(With(f, x, FALSE), K) = With(Only(f, K), x, FALSE)
         /\ x \notin K => Only(With(f, x, FALSE), K) = Only(f, K)
<1>1. PICK v : v = FALSE
  OBVIOUS
<1>2. /\ x \in K => Only(With(f, x, v), K) = With(Only(f, K), x, v)
      /\ x \notin K => Only(With(f, x, v), K) = Only(f, K)
  BY OnlyWith
<1> QED BY <1>1, <1>2

\* An account is read and stored in the same way through the keys.
LEMMA StoreLocal ==
  ASSUME NEW d \in Dbs, NEW K, NEW a \in Accounts, NEW x \in AccountRecords
  PROVE  /\ a \in K => /\ Account(Populated(d, K), a) = Account(d, a)
                       /\ Store(Populated(d, K), a, x) = Populated(Store(d, a, x), K)
         /\ a \notin K => Populated(Store(d, a, x), K) = Populated(d, K)
<1>1. PICK e : e = Store(d, a, x)
  OBVIOUS
<1>2. /\ e.accounts = With(d.accounts, a, x) /\ e.objects = d.objects /\ e.ghosts = d.ghosts
  BY <1>1, StoreFacts
<1>3. PICK p : p = Populated(d, K)
  OBVIOUS
<1>4. p = [accounts |-> Only(d.accounts, K), objects |-> Only(d.objects, K),
           ghosts |-> Only(d.ghosts, K)]
  BY <1>3, PopulatedIs
<1>5. Populated(e, K) = [accounts |-> Only(With(d.accounts, a, x), K), objects |-> Only(d.objects, K),
                         ghosts |-> Only(d.ghosts, K)]
  BY <1>2, PopulatedIs
<1>6. ASSUME a \in K
      PROVE  Account(p, a) = Account(d, a) /\ Store(p, a, x) = Populated(e, K)
  <2>1. Account(p, a) = Account(d, a)
    BY <1>4, <1>6 DEF Account, Only
  <2>2. Store(p, a, x) = [p EXCEPT !.accounts = With(p.accounts, a, x)]
    BY DEF Store
  <2>3. Only(With(d.accounts, a, x), K) = With(Only(d.accounts, K), a, x)
    BY <1>6, OnlyWith
  <2> QED BY <1>4, <1>5, <2>1, <2>2, <2>3
<1>7. ASSUME a \notin K PROVE Populated(e, K) = p
  BY <1>4, <1>5, <1>7, OnlyWith
<1> QED BY <1>1, <1>3, <1>6, <1>7

-----------------------------------------------------------------------------
(* Objects and ghosts.                                                     *)

PutObject(s, id, v) == [s EXCEPT !.objects = With(@, id, v)]
Revived(s, id, v) == [s EXCEPT !.objects = With(@, id, v), !.ghosts = With(@, id, FALSE)]

\* What writing an object, and reviving a ghost, changes in a StateDB.
LEMMA PutFacts ==
  ASSUME NEW d \in Dbs, NEW id \in ObjIds, NEW v \in Nat
  PROVE  /\ PutObject(d, id, v) \in Dbs /\ PutObject(d, id, v).accounts = d.accounts
         /\ PutObject(d, id, v).objects = With(d.objects, id, v)
         /\ PutObject(d, id, v).ghosts = d.ghosts /\ PutObject(d, id, v).stakes = d.stakes
         /\ Revived(d, id, v) \in Dbs /\ Revived(d, id, v).accounts = d.accounts
         /\ Revived(d, id, v).objects = With(d.objects, id, v)
         /\ Revived(d, id, v).ghosts = With(d.ghosts, id, FALSE)
         /\ Revived(d, id, v).stakes = d.stakes
<1>1. PICK m : m = With(d.objects, id, v)
  OBVIOUS
<1>2. PICK g : g = With(d.ghosts, id, FALSE)
  OBVIOUS
<1>3. m \in Maps(ObjIds, Nat) /\ g \in Maps(ObjIds, BOOLEAN)
  BY <1>1, <1>2, MapFacts DEF Dbs
<1>4. PutObject(d, id, v) = [d EXCEPT !.objects = m]
  BY <1>1 DEF PutObject
<1>5. Revived(d, id, v) = [d EXCEPT !.objects = m, !.ghosts = g]
  BY <1>1, <1>2 DEF Revived
<1>6. PICK e : e = [d EXCEPT !.objects = m]
  OBVIOUS
<1>7. PICK h : h = [d EXCEPT !.objects = m, !.ghosts = g]
  OBVIOUS
<1>8. e \in Dbs /\ e.accounts = d.accounts /\ e.objects = m /\ e.ghosts = d.ghosts /\ e.stakes = d.stakes
  BY <1>3, <1>6 DEF Dbs
<1>9. h \in Dbs /\ h.accounts = d.accounts /\ h.objects = m /\ h.ghosts = g /\ h.stakes = d.stakes
  BY <1>3, <1>7 DEF Dbs
<1> QED BY <1>1, <1>2, <1>4, <1>5, <1>6, <1>7, <1>8, <1>9

\* What writing an object changes in a StateDB.
LEMMA PutOne ==
  ASSUME NEW d \in Dbs, NEW id \in ObjIds, NEW v \in Nat
  PROVE  /\ PutObject(d, id, v) \in Dbs /\ PutObject(d, id, v).accounts = d.accounts
         /\ PutObject(d, id, v).objects = With(d.objects, id, v)
         /\ PutObject(d, id, v).ghosts = d.ghosts /\ PutObject(d, id, v).stakes = d.stakes
BY PutFacts

\* What reviving a ghost changes in a StateDB.
LEMMA ReviveOne ==
  ASSUME NEW d \in Dbs, NEW id \in ObjIds, NEW v \in Nat
  PROVE  /\ Revived(d, id, v) \in Dbs /\ Revived(d, id, v).accounts = d.accounts
         /\ Revived(d, id, v).objects = With(d.objects, id, v)
         /\ DOMAIN d.ghosts \subseteq DOMAIN Revived(d, id, v).ghosts
         /\ Revived(d, id, v).stakes = d.stakes
<1>1. DOMAIN d.ghosts \subseteq DOMAIN With(d.ghosts, id, FALSE)
  BY DEF With
<1> QED BY <1>1, PutFacts

\* Writing an object in an overlay that holds its key, or beside one that does not.
LEMMA PutLocal ==
  ASSUME NEW d \in Dbs, NEW K, NEW id \in ObjIds, NEW v \in Nat
  PROVE  /\ id \in K => /\ PutObject(Populated(d, K), id, v) = Populated(PutObject(d, id, v), K)
                        /\ Revived(Populated(d, K), id, v) = Populated(Revived(d, id, v), K)
         /\ id \notin K => /\ Populated(PutObject(d, id, v), K) = Populated(d, K)
                           /\ Populated(Revived(d, id, v), K) = Populated(d, K)
<1>1. PICK p : p = Populated(d, K)
  OBVIOUS
<1>2. p = [accounts |-> Only(d.accounts, K), objects |-> Only(d.objects, K),
           ghosts |-> Only(d.ghosts, K)]
  BY <1>1, PopulatedIs
<1>3. PICK e : e = PutObject(d, id, v)
  OBVIOUS
<1>4. PICK h : h = Revived(d, id, v)
  OBVIOUS
<1>5. Populated(e, K) = [accounts |-> Only(d.accounts, K), objects |-> Only(With(d.objects, id, v), K),
                         ghosts |-> Only(d.ghosts, K)]
  BY <1>3, PutFacts, PopulatedIs
<1>6. Populated(h, K) = [accounts |-> Only(d.accounts, K), objects |-> Only(With(d.objects, id, v), K),
                         ghosts |-> Only(With(d.ghosts, id, FALSE), K)]
  BY <1>4, PutFacts, PopulatedIs
<1>7. ASSUME id \in K PROVE PutObject(p, id, v) = Populated(e, K) /\ Revived(p, id, v) = Populated(h, K)
  <2>1. /\ PutObject(p, id, v) = [p EXCEPT !.objects = With(p.objects, id, v)]
        /\ Revived(p, id, v) = [p EXCEPT !.objects = With(p.objects, id, v),
                                         !.ghosts = With(p.ghosts, id, FALSE)]
    BY DEF PutObject, Revived
  <2>2. /\ Only(With(d.objects, id, v), K) = With(Only(d.objects, K), id, v)
        /\ Only(With(d.ghosts, id, FALSE), K) = With(Only(d.ghosts, K), id, FALSE)
    <3>1. Only(With(d.objects, id, v), K) = With(Only(d.objects, K), id, v)
      BY <1>7, OnlyWith
    <3>2. Only(With(d.ghosts, id, FALSE), K) = With(Only(d.ghosts, K), id, FALSE)
      BY <1>7, OnlyMarked
    <3> QED BY <3>1, <3>2
  <2>3. p.objects = Only(d.objects, K) /\ p.ghosts = Only(d.ghosts, K)
    BY <1>2
  <2>4. PutObject(p, id, v) = [p EXCEPT !.objects = Only(With(d.objects, id, v), K)]
    BY <2>1, <2>2, <2>3
  <2>5. Revived(p, id, v) = [p EXCEPT !.objects = Only(With(d.objects, id, v), K),
                                      !.ghosts = Only(With(d.ghosts, id, FALSE), K)]
    BY <2>1, <2>2, <2>3
  <2> QED BY <1>2, <1>5, <1>6, <2>4, <2>5
<1>8. ASSUME id \notin K PROVE Populated(e, K) = p /\ Populated(h, K) = p
  <2>1. /\ Only(With(d.objects, id, v), K) = Only(d.objects, K)
        /\ Only(With(d.ghosts, id, FALSE), K) = Only(d.ghosts, K)
    <3>1. Only(With(d.objects, id, v), K) = Only(d.objects, K)
      BY <1>8, OnlyWith
    <3>2. Only(With(d.ghosts, id, FALSE), K) = Only(d.ghosts, K)
      BY <1>8, OnlyMarked
    <3> QED BY <3>1, <3>2
  <2> QED BY <1>2, <1>5, <1>6, <2>1
<1> QED BY <1>1, <1>3, <1>4, <1>7, <1>8

-----------------------------------------------------------------------------
(* The effect of a transaction, kind by kind.                              *)

Parallel(tx) == tx \in Txs /\ tx.kind \notin SerialKinds

\* A state or an overlay has maps of objects and ghosts.
Proper(s) ==
  s.objects = [x \in DOMAIN s.objects |-> s.objects[x]]
    /\ s.ghosts = [x \in DOMAIN s.ghosts |-> s.ghosts[x]]

\* A StateDB and an overlay both have the maps that the operations use.
LEMMA ProperIs ==
  ASSUME NEW d \in Dbs, NEW K
  PROVE  Proper(d) /\ Proper(Populated(d, K))
<1>1. d.objects \in Maps(ObjIds, Nat) /\ d.ghosts \in Maps(ObjIds, BOOLEAN)
  BY DEF Dbs
<1>2. Proper(d)
  BY <1>1, MapFacts DEF Proper
<1>3. /\ Populated(d, K).objects = Only(d.objects, K)
      /\ Populated(d, K).ghosts = Only(d.ghosts, K)
  BY PopulatedIs
<1>4. Proper(Populated(d, K))
  BY <1>3 DEF Proper, Only
<1> QED BY <1>2, <1>4

\* A refresh of an object or of a ghost writes one entry.
LEMMA RefreshIs ==
  ASSUME NEW s, Proper(s), NEW id, NEW v,
         s = [accounts |-> s.accounts, objects |-> s.objects, ghosts |-> s.ghosts, stakes |-> s.stakes]
           \/ s = [accounts |-> s.accounts, objects |-> s.objects, ghosts |-> s.ghosts]
  PROVE  /\ id \in DOMAIN s.objects
              => [s EXCEPT !.objects[id] = v] = PutObject(s, id, v)
         /\ id \in DOMAIN s.ghosts
              => [s EXCEPT !.objects = With(@, id, v), !.ghosts[id] = FALSE] = Revived(s, id, v)
<1>1. ASSUME NEW f, f = [x \in DOMAIN f |-> f[x]], id \in DOMAIN f, NEW w
      PROVE  [f EXCEPT ![id] = w] = With(f, id, w)
  BY <1>1 DEF With
<1>2. ASSUME id \in DOMAIN s.objects
      PROVE  [s EXCEPT !.objects[id] = v] = PutObject(s, id, v)
  <2>1. [s.objects EXCEPT ![id] = v] = With(s.objects, id, v)
    BY <1>1, <1>2 DEF Proper
  <2>2. [s EXCEPT !.objects[id] = v] = [s EXCEPT !.objects = [s.objects EXCEPT ![id] = v]]
    OBVIOUS
  <2> QED BY <2>1, <2>2 DEF PutObject
<1>3. ASSUME id \in DOMAIN s.ghosts
      PROVE  [s EXCEPT !.objects = With(@, id, v), !.ghosts[id] = FALSE] = Revived(s, id, v)
  <2>1. [s.ghosts EXCEPT ![id] = FALSE] = With(s.ghosts, id, FALSE)
    BY <1>1, <1>3 DEF Proper
  <2>2. PICK m : m = With(s.objects, id, v)
    OBVIOUS
  <2>3. [s EXCEPT !.objects = With(@, id, v), !.ghosts[id] = FALSE] =
          [s EXCEPT !.objects = m, !.ghosts = [s.ghosts EXCEPT ![id] = FALSE]]
    BY <2>2
  <2>4. Revived(s, id, v) = [s EXCEPT !.objects = m, !.ghosts = With(s.ghosts, id, FALSE)]
    BY <2>2 DEF Revived
  <2> QED BY <2>1, <2>3, <2>4
<1> QED BY <1>2, <1>3

ParallelKinds == {"Transfer", "CreateObject", "Refresh", "ValidatorStake", "Blob", "Governance"}

\* The kinds of the transactions that the parallel stage takes.
LEMMA ParallelKind ==
  ASSUME NEW tx, Parallel(tx)
  PROVE  tx \in Txs /\ tx.kind \in ParallelKinds
<1>1. tx \in Txs /\ tx.kind \in Kinds /\ tx.kind \notin SerialKinds
  BY TxFields DEF Parallel
<1> QED BY <1>1 DEF Kinds, SerialKinds, NeverExecuted, ParallelKinds

Credited(acct, tx) == [acct EXCEPT !.balance = @ + tx.amount]
Deposited(acct) == [acct EXCEPT !.balance = @ - MIN_STORAGE_DEPOSIT, !.deposit = @ + MIN_STORAGE_DEPOSIT]

\* When a transaction executes ...
LEMMA ExecutesIs ==
  ASSUME NEW s, NEW tx, Parallel(tx)
  PROVE  /\ tx.kind = "Transfer" =>
              (Executes(s, tx) <=> /\ tx.from # tx.to /\ tx.amount > 0
                                   /\ Account(s, tx.from).nonce = tx.nonce
                                   /\ Account(s, tx.from).balance >= tx.amount)
         /\ tx.kind = "CreateObject" =>
              (Executes(s, tx) <=> /\ tx.id \notin DOMAIN s.objects
                                   /\ Account(s, tx.from).balance >= MIN_STORAGE_DEPOSIT)
         /\ tx.kind = "Refresh" =>
              (Executes(s, tx) <=> /\ tx.amount > 0
                                   /\ \/ tx.id \in DOMAIN s.objects
                                      \/ tx.id \in DOMAIN s.ghosts /\ s.ghosts[tx.id])
         /\ tx.kind = "ValidatorStake" =>
              (Executes(s, tx) <=> /\ tx.amount > 0 /\ Account(s, tx.from).nonce = tx.nonce
                                   /\ Account(s, tx.from).balance >= tx.amount)
         /\ tx.kind = "Blob" => (Executes(s, tx) <=> tx.amount > 0)
         /\ tx.kind = "Governance" => ~Executes(s, tx)
BY DEF Executes, NeverExecuted

\* ... and what it then does.
LEMMA EffectIs ==
  ASSUME NEW s, Proper(s), NEW tx, Parallel(tx), Executes(s, tx),
         s = [accounts |-> s.accounts, objects |-> s.objects, ghosts |-> s.ghosts, stakes |-> s.stakes]
           \/ s = [accounts |-> s.accounts, objects |-> s.objects, ghosts |-> s.ghosts]
  PROVE  /\ tx.kind \in {"Transfer", "CreateObject", "Refresh", "ValidatorStake", "Blob"}
         /\ tx.kind = "Transfer" =>
              Effect(s, tx) = Store(Store(s, tx.from, Debited(Account(s, tx.from), tx)),
                                    tx.to, Credited(Account(s, tx.to), tx))
         /\ tx.kind = "CreateObject" =>
              Effect(s, tx) = PutObject(Store(s, tx.from, Deposited(Account(s, tx.from))),
                                        tx.id, tx.amount)
         /\ tx.kind = "Refresh" /\ tx.id \in DOMAIN s.objects =>
              Effect(s, tx) = PutObject(s, tx.id, s.objects[tx.id] + tx.amount)
         /\ tx.kind = "Refresh" /\ tx.id \notin DOMAIN s.objects =>
              tx.id \in DOMAIN s.ghosts /\ Effect(s, tx) = Revived(s, tx.id, tx.amount)
         /\ tx.kind = "ValidatorStake" =>
              Effect(s, tx) = Store(s, tx.from, Debited(Account(s, tx.from), tx))
         /\ tx.kind = "Blob" => Effect(s, tx) = s
<1>1. tx.kind \in {"Transfer", "CreateObject", "Refresh", "ValidatorStake", "Blob"}
  BY ParallelKind, ExecutesIs DEF ParallelKinds
<1>2. ASSUME tx.kind = "Transfer"
      PROVE  Effect(s, tx) = Store(Store(s, tx.from, Debited(Account(s, tx.from), tx)),
                                   tx.to, Credited(Account(s, tx.to), tx))
  BY <1>2 DEF Effect, Credited
<1>3. ASSUME tx.kind = "CreateObject"
      PROVE  Effect(s, tx) = PutObject(Store(s, tx.from, Deposited(Account(s, tx.from))),
                                       tx.id, tx.amount)
  BY <1>3 DEF Effect, PutObject, Deposited
<1>4. ASSUME tx.kind = "Refresh", tx.id \in DOMAIN s.objects
      PROVE  Effect(s, tx) = PutObject(s, tx.id, s.objects[tx.id] + tx.amount)
  <2>1. Effect(s, tx) = [s EXCEPT !.objects[tx.id] = s.objects[tx.id] + tx.amount]
    BY <1>4 DEF Effect
  <2>2. [s EXCEPT !.objects[tx.id] = s.objects[tx.id] + tx.amount] = PutObject(s, tx.id, s.objects[tx.id] + tx.amount)
    <3>1. PICK v : v = s.objects[tx.id] + tx.amount
      OBVIOUS
    <3>2. [s EXCEPT !.objects[tx.id] = v] = PutObject(s, tx.id, v)
      BY <1>4, RefreshIs, Zenon
    <3> QED BY <3>1, <3>2, Zenon
  <2> QED BY <2>1, <2>2, Zenon
<1>5. ASSUME tx.kind = "Refresh", tx.id \notin DOMAIN s.objects
      PROVE  tx.id \in DOMAIN s.ghosts /\ Effect(s, tx) = Revived(s, tx.id, tx.amount)
  <2>1. Effect(s, tx) = [s EXCEPT !.objects = With(@, tx.id, tx.amount), !.ghosts[tx.id] = FALSE]
    BY <1>5 DEF Effect
  <2>2. tx.id \in DOMAIN s.ghosts
    BY <1>5, ExecutesIs
  <2>3. [s EXCEPT !.objects = With(@, tx.id, tx.amount), !.ghosts[tx.id] = FALSE] =
          Revived(s, tx.id, tx.amount)
    BY <2>2, RefreshIs, Zenon
  <2> QED BY <2>1, <2>2, <2>3, Zenon
<1>6. ASSUME tx.kind = "ValidatorStake"
      PROVE  Effect(s, tx) = Store(s, tx.from, Debited(Account(s, tx.from), tx))
  BY <1>6 DEF Effect
<1>7. ASSUME tx.kind = "Blob" PROVE Effect(s, tx) = s
  BY <1>7 DEF Effect
<1> QED BY <1>1, <1>2, <1>3, <1>4, <1>5, <1>6, <1>7

-----------------------------------------------------------------------------
(* What a transaction reads and writes is among its access keys.           *)

Paid(acct, tx) == [acct EXCEPT !.balance = @ - Fee(tx)]

\* The keys that extract_access_keys declares, kind by kind.
LEMMA KeysAre ==
  ASSUME NEW tx, Parallel(tx)
  PROVE  /\ tx.kind = "Transfer" => AccessKeys(tx) = {tx.from, tx.to}
         /\ tx.kind = "CreateObject" => AccessKeys(tx) = {tx.from, tx.id}
         /\ tx.kind = "Refresh" => AccessKeys(tx) = {tx.id}
         /\ tx.kind # "Refresh" => tx.from \in AccessKeys(tx)
BY DEF AccessKeys

\* The records of the accounts that change.
LEMMA RecordFacts ==
  ASSUME NEW acct \in AccountRecords, NEW tx \in Txs
  PROVE  /\ acct.balance \in Nat /\ acct.nonce \in Nat /\ acct.deposit \in Nat
         /\ acct.balance >= Fee(tx) =>
              /\ Paid(acct, tx) \in AccountRecords /\ Paid(acct, tx).nonce = acct.nonce
              /\ Paid(acct, tx).balance = acct.balance - Fee(tx)
              /\ Paid(acct, tx).deposit = acct.deposit
         /\ acct.balance >= tx.amount =>
              /\ Debited(acct, tx) \in AccountRecords /\ Debited(acct, tx).nonce = acct.nonce + 1
              /\ Debited(acct, tx).balance = acct.balance - tx.amount
              /\ Debited(acct, tx).deposit = acct.deposit
         /\ Credited(acct, tx) \in AccountRecords /\ Credited(acct, tx).nonce = acct.nonce
         /\ Credited(acct, tx).balance = acct.balance + tx.amount
         /\ Credited(acct, tx).deposit = acct.deposit
         /\ acct.balance >= MIN_STORAGE_DEPOSIT =>
              /\ Deposited(acct) \in AccountRecords /\ Deposited(acct).nonce = acct.nonce
              /\ Deposited(acct).balance = acct.balance - MIN_STORAGE_DEPOSIT
              /\ Deposited(acct).deposit = acct.deposit + MIN_STORAGE_DEPOSIT
<1>1. acct.balance \in Nat /\ acct.nonce \in Nat /\ acct.deposit \in Nat
  BY DEF AccountRecords
<1>2. Fee(tx) \in Nat /\ tx.amount \in Nat /\ MIN_STORAGE_DEPOSIT \in Nat
  BY TxFields, ExecutorAssumption
<1>3. acct.balance >= Fee(tx) =>
        /\ Paid(acct, tx) \in AccountRecords /\ Paid(acct, tx).nonce = acct.nonce
        /\ Paid(acct, tx).balance = acct.balance - Fee(tx)
        /\ Paid(acct, tx).deposit = acct.deposit
  BY <1>1, <1>2 DEF Paid, AccountRecords
<1>4. acct.balance >= tx.amount =>
        /\ Debited(acct, tx) \in AccountRecords /\ Debited(acct, tx).nonce = acct.nonce + 1
        /\ Debited(acct, tx).balance = acct.balance - tx.amount
        /\ Debited(acct, tx).deposit = acct.deposit
  <2> SUFFICES ASSUME acct.balance >= tx.amount
               PROVE  /\ Debited(acct, tx) \in AccountRecords /\ Debited(acct, tx).nonce = acct.nonce + 1
                      /\ Debited(acct, tx).balance = acct.balance - tx.amount
                      /\ Debited(acct, tx).deposit = acct.deposit
    OBVIOUS
  <2>1. PICK b \in Nat : b = acct.balance - tx.amount
    BY <1>1, <1>2
  <2>2. PICK n \in Nat : n = acct.nonce + 1
    BY <1>1
  <2>3. Debited(acct, tx) = [acct EXCEPT !.balance = b, !.nonce = n]
    BY <2>1, <2>2 DEF Debited
  <2>4. acct = [balance |-> acct.balance, nonce |-> acct.nonce, deposit |-> acct.deposit]
    BY DEF AccountRecords
  <2>5. Debited(acct, tx) = [balance |-> b, nonce |-> n, deposit |-> acct.deposit]
    BY <2>3, <2>4
  <2> QED BY <1>1, <2>1, <2>2, <2>5 DEF AccountRecords
<1>5. /\ Credited(acct, tx) \in AccountRecords /\ Credited(acct, tx).nonce = acct.nonce
      /\ Credited(acct, tx).balance = acct.balance + tx.amount
      /\ Credited(acct, tx).deposit = acct.deposit
  BY <1>1, <1>2 DEF Credited, AccountRecords
<1>6. acct.balance >= MIN_STORAGE_DEPOSIT =>
        /\ Deposited(acct) \in AccountRecords /\ Deposited(acct).nonce = acct.nonce
        /\ Deposited(acct).balance = acct.balance - MIN_STORAGE_DEPOSIT
        /\ Deposited(acct).deposit = acct.deposit + MIN_STORAGE_DEPOSIT
  <2> SUFFICES ASSUME acct.balance >= MIN_STORAGE_DEPOSIT
               PROVE  /\ Deposited(acct) \in AccountRecords /\ Deposited(acct).nonce = acct.nonce
                      /\ Deposited(acct).balance = acct.balance - MIN_STORAGE_DEPOSIT
                      /\ Deposited(acct).deposit = acct.deposit + MIN_STORAGE_DEPOSIT
    OBVIOUS
  <2>1. PICK b \in Nat : b = acct.balance - MIN_STORAGE_DEPOSIT
    BY <1>1, <1>2
  <2>2. PICK n \in Nat : n = acct.deposit + MIN_STORAGE_DEPOSIT
    BY <1>1, <1>2
  <2>3. Deposited(acct) = [acct EXCEPT !.balance = b, !.deposit = n]
    BY <2>1, <2>2 DEF Deposited
  <2>4. acct = [balance |-> acct.balance, nonce |-> acct.nonce, deposit |-> acct.deposit]
    BY DEF AccountRecords
  <2>5. Deposited(acct) = [balance |-> b, nonce |-> acct.nonce, deposit |-> n]
    BY <2>3, <2>4
  <2> QED BY <1>1, <2>1, <2>2, <2>5 DEF AccountRecords
<1> QED BY <1>1, <1>3, <1>4, <1>5, <1>6

\* The fee is taken from the sender; a refresh has none.
LEMMA ChargedIs ==
  ASSUME NEW s, NEW tx \in Txs
  PROVE  /\ tx.kind = "Refresh" => Charged(s, tx) = s /\ CanPay(s, tx)
         /\ tx.kind # "Refresh" =>
              /\ Charged(s, tx) = Store(s, tx.from, Paid(Account(s, tx.from), tx))
              /\ CanPay(s, tx) <=> Account(s, tx.from).balance >= Fee(tx)
BY DEF Charged, CanPay, Sender, Paid

\* Taking the fee, on a state and through a set of keys.
LEMMA ChargedFacts ==
  ASSUME NEW d \in Dbs, NEW tx \in Txs, CanPay(d, tx)
  PROVE  /\ Charged(d, tx) \in Dbs
         /\ Charged(d, tx).objects = d.objects /\ Charged(d, tx).ghosts = d.ghosts
         /\ Charged(d, tx).stakes = d.stakes
         /\ \A a : Account(Charged(d, tx), a).nonce = Account(d, a).nonce
         /\ DOMAIN d.accounts \subseteq DOMAIN Charged(d, tx).accounts
<1>1. CASE tx.kind = "Refresh"
  BY <1>1, ChargedIs
<1>2. CASE tx.kind # "Refresh"
  <2>1. /\ Charged(d, tx) = Store(d, tx.from, Paid(Account(d, tx.from), tx))
        /\ Account(d, tx.from).balance >= Fee(tx) /\ tx.from \in Accounts
    BY <1>2, ChargedIs, TxFields
  <2>2. Account(d, tx.from) \in AccountRecords
    BY AccountType DEF Dbs
  <2>3. PICK x \in AccountRecords : /\ x = Paid(Account(d, tx.from), tx)
                                    /\ x.nonce = Account(d, tx.from).nonce
    BY <2>1, <2>2, RecordFacts
  <2>4. PICK e : e = Charged(d, tx)
    OBVIOUS
  <2>5. /\ e \in Dbs /\ e.accounts = With(d.accounts, tx.from, x) /\ e.objects = d.objects
        /\ e.ghosts = d.ghosts /\ e.stakes = d.stakes
        /\ \A b : Account(e, b) = IF b = tx.from THEN x ELSE Account(d, b)
    BY <2>1, <2>3, <2>4, StoreFacts
  <2>6. \A a : Account(e, a).nonce = Account(d, a).nonce
    BY <2>3, <2>5
  <2>7. DOMAIN d.accounts \subseteq DOMAIN e.accounts
    BY <2>5 DEF With
  <2> QED BY <2>4, <2>5, <2>6, <2>7
<1> QED BY <1>1, <1>2

\* Taking the fee in an overlay that holds the keys of the transaction, or beside one
\* that holds none of them.
LEMMA ChargedLocal ==
  ASSUME NEW d \in Dbs, NEW tx, Parallel(tx), NEW K
  PROVE  /\ AccessKeys(tx) \subseteq K =>
              /\ CanPay(Populated(d, K), tx) <=> CanPay(d, tx)
              /\ CanPay(d, tx) => Charged(Populated(d, K), tx) = Populated(Charged(d, tx), K)
         /\ AccessKeys(tx) \cap K = {} /\ CanPay(d, tx) => Populated(Charged(d, tx), K) = Populated(d, K)
<1>0. tx \in Txs
  BY ParallelKind
<1>1. CASE tx.kind = "Refresh"
  BY <1>0, <1>1, ChargedIs
<1>2. CASE tx.kind # "Refresh"
  <2>1. tx.from \in Accounts /\ tx.from \in AccessKeys(tx)
    BY <1>0, <1>2, TxFields, KeysAre
  <2>2. PICK a : a = Account(d, tx.from)
    OBVIOUS
  <2>3. a \in AccountRecords
    BY <2>2, AccountType DEF Dbs
  <2>4. PICK x : x = Paid(a, tx)
    OBVIOUS
  <2>5. /\ Charged(d, tx) = Store(d, tx.from, x) /\ (CanPay(d, tx) <=> a.balance >= Fee(tx))
    BY <1>0, <1>2, <2>2, <2>4, ChargedIs
  <2>6. CanPay(d, tx) => x \in AccountRecords
    BY <1>0, <2>3, <2>4, <2>5, RecordFacts
  <2>7. ASSUME AccessKeys(tx) \subseteq K
        PROVE  /\ CanPay(Populated(d, K), tx) <=> CanPay(d, tx)
               /\ CanPay(d, tx) => Charged(Populated(d, K), tx) = Populated(Charged(d, tx), K)
    <3>1. Account(Populated(d, K), tx.from) = a
      BY <2>1, <2>2, <2>3, <2>7, StoreLocal
    <3>2. /\ Charged(Populated(d, K), tx) = Store(Populated(d, K), tx.from, x)
          /\ (CanPay(Populated(d, K), tx) <=> a.balance >= Fee(tx))
      BY <1>0, <1>2, <2>4, <3>1, ChargedIs
    <3>3. CanPay(d, tx) => Store(Populated(d, K), tx.from, x) = Populated(Store(d, tx.from, x), K)
      BY <2>1, <2>6, <2>7, StoreLocal
    <3> QED BY <2>5, <3>2, <3>3
  <2>8. ASSUME AccessKeys(tx) \cap K = {}, CanPay(d, tx)
        PROVE  Populated(Charged(d, tx), K) = Populated(d, K)
    <3>1. tx.from \notin K
      BY <2>1, <2>8
    <3> QED BY <2>1, <2>5, <2>6, <2>8, <3>1, StoreLocal
  <2> QED BY <2>7, <2>8
<1> QED BY <1>1, <1>2

\* A StateDB and an overlay are determined by their maps.
LEMMA Shapes ==
  ASSUME NEW d \in Dbs, NEW K
  PROVE  /\ d = [accounts |-> d.accounts, objects |-> d.objects, ghosts |-> d.ghosts, stakes |-> d.stakes]
         /\ LET p == Populated(d, K)
            IN p = [accounts |-> p.accounts, objects |-> p.objects, ghosts |-> p.ghosts]
<1>1. d = [accounts |-> d.accounts, objects |-> d.objects, ghosts |-> d.ghosts, stakes |-> d.stakes]
  BY DEF Dbs
<1>2. PICK p : p = Populated(d, K)
  OBVIOUS
<1>3. p = [accounts |-> Only(d.accounts, K), objects |-> Only(d.objects, K),
           ghosts |-> Only(d.ghosts, K)]
  BY <1>2, PopulatedIs
<1>4. p = [accounts |-> p.accounts, objects |-> p.objects, ghosts |-> p.ghosts]
  BY <1>3
<1> QED BY <1>1, <1>2, <1>4

\* The two stores of a transfer, and the others, one by one.
LEMMA StoreGrows ==
  ASSUME NEW d \in Dbs, NEW a \in Accounts, NEW x \in AccountRecords
  PROVE  DOMAIN d.accounts \subseteq DOMAIN Store(d, a, x).accounts
<1>1. Store(d, a, x).accounts = With(d.accounts, a, x)
  BY StoreFacts
<1> QED BY <1>1 DEF With

OverlayNonces == {"Transfer", "ValidatorStake", "Governance"}

\* What a state is after a transaction was executed.
After(d, e, tx) ==
  /\ e \in Dbs /\ e.stakes = d.stakes
  /\ DOMAIN d.accounts \subseteq DOMAIN e.accounts
  /\ DOMAIN d.objects \subseteq DOMAIN e.objects /\ DOMAIN d.ghosts \subseteq DOMAIN e.ghosts
  /\ \A a : Account(e, a).nonce >= Account(d, a).nonce
  /\ tx.kind \in OverlayNonces => Account(d, tx.from).nonce = tx.nonce
                               /\ Account(e, tx.from).nonce = tx.nonce + 1

\* A transaction that executes leaves a StateDB, and the nonces as After says.
LEMMA EffectFacts ==
  ASSUME NEW d \in Dbs, NEW tx, Parallel(tx), Executes(d, tx)
  PROVE  After(d, Effect(d, tx), tx)
<1> DEFINE e == Effect(d, tx)
           from == Account(d, tx.from)
           to == Account(d, tx.to)
<1>0. /\ tx \in Txs /\ tx.amount \in Nat /\ (tx.kind # "Refresh" => tx.from \in Accounts)
      /\ (tx.kind = "Transfer" => tx.to \in Accounts)
      /\ (tx.kind \in {"CreateObject", "Refresh"} => tx.id \in ObjIds)
  BY ParallelKind, TxFields
<1>1. \A a : Account(d, a) \in AccountRecords
  BY AccountType DEF Dbs
<1>2. \A a : Account(d, a).nonce \in Nat /\ Account(d, a).balance \in Nat
  BY <1>1 DEF AccountRecords
<1>3. d.objects \in Maps(ObjIds, Nat) /\ d.ghosts \in Maps(ObjIds, BOOLEAN)
  BY DEF Dbs
<1>4. /\ tx.kind \in {"Transfer", "CreateObject", "Refresh", "ValidatorStake", "Blob"}
      /\ tx.kind = "Transfer" => e = Store(Store(d, tx.from, Debited(from, tx)), tx.to, Credited(to, tx))
      /\ tx.kind = "CreateObject" => e = PutObject(Store(d, tx.from, Deposited(from)), tx.id, tx.amount)
      /\ tx.kind = "Refresh" /\ tx.id \in DOMAIN d.objects =>
           e = PutObject(d, tx.id, d.objects[tx.id] + tx.amount)
      /\ tx.kind = "Refresh" /\ tx.id \notin DOMAIN d.objects => e = Revived(d, tx.id, tx.amount)
      /\ tx.kind = "ValidatorStake" => e = Store(d, tx.from, Debited(from, tx))
      /\ tx.kind = "Blob" => e = d
  BY ProperIs, Shapes, EffectIs
<1> HIDE DEF e, from, to
<1>5. CASE tx.kind = "Transfer"
  <2>1. tx.from # tx.to /\ from.nonce = tx.nonce /\ from.balance >= tx.amount
    BY <1>5, ExecutesIs DEF from
  <2>2. PICK x \in AccountRecords : x = Debited(from, tx) /\ x.nonce = tx.nonce + 1
    BY <1>0, <1>1, <2>1, RecordFacts DEF from
  <2>3. PICK y \in AccountRecords : y = Credited(to, tx) /\ y.nonce = to.nonce
    BY <1>0, <1>1, RecordFacts DEF to
  <2>4. PICK m : m = Store(d, tx.from, x)
    OBVIOUS
  <2>5. /\ m \in Dbs /\ m.objects = d.objects /\ m.ghosts = d.ghosts /\ m.stakes = d.stakes
        /\ \A b : Account(m, b) = IF b = tx.from THEN x ELSE Account(d, b)
        /\ DOMAIN d.accounts \subseteq DOMAIN m.accounts
    BY <1>0, <1>5, <2>4, StoreFacts, StoreGrows
  <2>6. e = Store(m, tx.to, y)
    BY <1>4, <1>5, <2>2, <2>3, <2>4
  <2>7. /\ e \in Dbs /\ e.objects = d.objects /\ e.ghosts = d.ghosts /\ e.stakes = d.stakes
        /\ \A b : Account(e, b) = IF b = tx.to THEN y ELSE Account(m, b)
        /\ DOMAIN m.accounts \subseteq DOMAIN e.accounts
    <3>1. tx.to \in Accounts /\ m \in Dbs
      BY <1>0, <1>5, <2>5
    <3>2. /\ e \in Dbs /\ e.objects = m.objects /\ e.ghosts = m.ghosts /\ e.stakes = m.stakes
          /\ \A b : Account(e, b) = IF b = tx.to THEN y ELSE Account(m, b)
      BY <2>6, <3>1, StoreFacts
    <3>3. DOMAIN m.accounts \subseteq DOMAIN e.accounts
      BY <2>6, <3>1, StoreGrows
    <3> QED BY <2>5, <3>2, <3>3
  <2>8. Account(e, tx.from).nonce = tx.nonce + 1
    BY <2>1, <2>2, <2>5, <2>7
  <2>9. \A a : Account(e, a).nonce >= Account(d, a).nonce
    <3> SUFFICES ASSUME NEW a PROVE Account(e, a).nonce >= Account(d, a).nonce
      OBVIOUS
    <3>0. Account(d, a).nonce \in Nat
      BY <1>2
    <3>1. CASE a = tx.from
      BY <2>1, <2>8, <3>0, <3>1 DEF from
    <3>2. CASE a = tx.to
      BY <2>3, <2>7, <3>0, <3>2 DEF to
    <3>3. CASE a # tx.from /\ a # tx.to
      BY <2>5, <2>7, <3>0, <3>3
    <3> QED BY <3>1, <3>2, <3>3
  <2> QED BY <2>1, <2>5, <2>7, <2>8, <2>9 DEF After, e, from
<1>6. CASE tx.kind = "CreateObject"
  <2>1. from.balance >= MIN_STORAGE_DEPOSIT
    BY <1>6, ExecutesIs DEF from
  <2>2. PICK x \in AccountRecords : x = Deposited(from) /\ x.nonce = from.nonce
    BY <1>0, <1>1, <2>1, RecordFacts DEF from
  <2>3. PICK m : m = Store(d, tx.from, x)
    OBVIOUS
  <2>4. /\ m \in Dbs /\ m.objects = d.objects /\ m.ghosts = d.ghosts /\ m.stakes = d.stakes
        /\ \A b : Account(m, b) = IF b = tx.from THEN x ELSE Account(d, b)
        /\ DOMAIN d.accounts \subseteq DOMAIN m.accounts
    BY <1>0, <1>6, <2>3, StoreFacts, StoreGrows
  <2>5. e = PutObject(m, tx.id, tx.amount)
    BY <1>4, <1>6, <2>2, <2>3
  <2>6. /\ e \in Dbs /\ e.accounts = m.accounts /\ e.objects = With(d.objects, tx.id, tx.amount)
        /\ e.ghosts = d.ghosts /\ e.stakes = d.stakes
    BY <1>0, <1>6, <2>4, <2>5, PutOne
  <2>7. DOMAIN d.objects \subseteq DOMAIN e.objects
    BY <2>6 DEF With
  <2>8. \A a : Account(e, a) = Account(m, a)
    BY <2>6 DEF Account
  <2>9. \A a : Account(e, a).nonce >= Account(d, a).nonce
    BY <1>2, <2>2, <2>4, <2>8 DEF from
  <2> QED BY <1>6, <2>4, <2>6, <2>7, <2>9 DEF After, e, OverlayNonces
<1>7. CASE tx.kind = "Refresh"
  <2>1. PICK v \in Nat : e = PutObject(d, tx.id, v) \/ e = Revived(d, tx.id, v)
    <3>1. CASE tx.id \in DOMAIN d.objects
      <4>1. d.objects[tx.id] \in Nat
        BY <1>3, <3>1, MapFacts
      <4> QED BY <1>0, <1>4, <1>7, <3>1, <4>1
    <3>2. CASE tx.id \notin DOMAIN d.objects
      BY <1>0, <1>4, <1>7, <3>2
    <3> QED BY <3>1, <3>2
  <2>2. /\ e \in Dbs /\ e.accounts = d.accounts /\ e.stakes = d.stakes
        /\ e.objects = With(d.objects, tx.id, v)
        /\ DOMAIN d.ghosts \subseteq DOMAIN e.ghosts
    <3>1. CASE e = PutObject(d, tx.id, v)
      BY <1>0, <1>7, <3>1, PutOne
    <3>2. CASE e = Revived(d, tx.id, v)
      BY <1>0, <1>7, <3>2, ReviveOne
    <3> QED BY <2>1, <3>1, <3>2
  <2>3. DOMAIN d.objects \subseteq DOMAIN e.objects
    BY <2>2 DEF With
  <2>4. \A a : Account(e, a) = Account(d, a)
    BY <2>2 DEF Account
  <2> QED BY <1>2, <1>7, <2>2, <2>3, <2>4 DEF After, e, OverlayNonces
<1>8. CASE tx.kind = "ValidatorStake"
  <2>1. from.nonce = tx.nonce /\ from.balance >= tx.amount
    BY <1>8, ExecutesIs DEF from
  <2>2. PICK x \in AccountRecords : x = Debited(from, tx) /\ x.nonce = tx.nonce + 1
    BY <1>0, <1>1, <2>1, RecordFacts DEF from
  <2>3. /\ e \in Dbs /\ e.objects = d.objects /\ e.ghosts = d.ghosts /\ e.stakes = d.stakes
        /\ \A b : Account(e, b) = IF b = tx.from THEN x ELSE Account(d, b)
        /\ DOMAIN d.accounts \subseteq DOMAIN e.accounts
    BY <1>0, <1>4, <1>8, <2>2, StoreFacts, StoreGrows
  <2>4. \A a : Account(e, a).nonce >= Account(d, a).nonce
    <3> SUFFICES ASSUME NEW a PROVE Account(e, a).nonce >= Account(d, a).nonce
      OBVIOUS
    <3>0. Account(d, a).nonce \in Nat
      BY <1>2
    <3> QED BY <2>1, <2>2, <2>3, <3>0 DEF from
  <2> QED BY <2>1, <2>2, <2>3, <2>4 DEF After, e, from
<1>9. CASE tx.kind = "Blob"
  BY <1>2, <1>4, <1>9 DEF After, e, OverlayNonces
<1> QED BY <1>4, <1>5, <1>6, <1>7, <1>8, <1>9

\* The effect through the access keys, and outside of them.
LEMMA EffectLocal ==
  ASSUME NEW d \in Dbs, NEW tx, Parallel(tx), NEW K, AccessKeys(tx) \subseteq K
  PROVE  /\ Executes(Populated(d, K), tx) <=> Executes(d, tx)
         /\ Executes(d, tx) => Effect(Populated(d, K), tx) = Populated(Effect(d, tx), K)
<1> DEFINE p == Populated(d, K)
           from == Account(d, tx.from)
           to == Account(d, tx.to)
<1>0. /\ tx \in Txs /\ tx.amount \in Nat /\ (tx.kind # "Refresh" => tx.from \in Accounts)
      /\ (tx.kind = "Transfer" => tx.to \in Accounts)
      /\ (tx.kind \in {"CreateObject", "Refresh"} => tx.id \in ObjIds)
      /\ tx.kind \in ParallelKinds
  BY ParallelKind, TxFields
<1>1. \A a : Account(d, a) \in AccountRecords
  BY AccountType DEF Dbs
<1>2. /\ (tx.kind # "Refresh" => tx.from \in K) /\ (tx.kind = "Transfer" => tx.to \in K)
      /\ (tx.kind \in {"CreateObject", "Refresh"} => tx.id \in K)
  BY KeysAre
<1>3. /\ tx.kind # "Refresh" => Account(p, tx.from) = from
      /\ tx.kind = "Transfer" => Account(p, tx.to) = to
  BY <1>0, <1>1, <1>2, StoreLocal
<1>4. tx.kind \in {"CreateObject", "Refresh"} =>
        /\ tx.id \in DOMAIN p.objects <=> tx.id \in DOMAIN d.objects
        /\ tx.id \in DOMAIN p.ghosts <=> tx.id \in DOMAIN d.ghosts
        /\ tx.id \in DOMAIN d.objects => p.objects[tx.id] = d.objects[tx.id]
        /\ tx.id \in DOMAIN d.ghosts => p.ghosts[tx.id] = d.ghosts[tx.id]
  BY <1>2, PopulatedIs DEF Only
<1>5. Proper(d) /\ Proper(p)
  BY ProperIs
<1>6. p = [accounts |-> p.accounts, objects |-> p.objects, ghosts |-> p.ghosts]
  BY Shapes
<1>7. d = [accounts |-> d.accounts, objects |-> d.objects, ghosts |-> d.ghosts, stakes |-> d.stakes]
  BY Shapes
<1> HIDE DEF p, from, to
<1>8. Executes(p, tx) <=> Executes(d, tx)
  BY <1>0, <1>3, <1>4, ExecutesIs DEF ParallelKinds, from
<1>9. ASSUME Executes(d, tx) PROVE Effect(p, tx) = Populated(Effect(d, tx), K)
  <2>1. /\ tx.kind \in {"Transfer", "CreateObject", "Refresh", "ValidatorStake", "Blob"}
        /\ tx.kind = "Transfer" =>
             Effect(d, tx) = Store(Store(d, tx.from, Debited(from, tx)), tx.to, Credited(to, tx))
        /\ tx.kind = "CreateObject" =>
             Effect(d, tx) = PutObject(Store(d, tx.from, Deposited(from)), tx.id, tx.amount)
        /\ tx.kind = "Refresh" /\ tx.id \in DOMAIN d.objects =>
             Effect(d, tx) = PutObject(d, tx.id, d.objects[tx.id] + tx.amount)
        /\ tx.kind = "Refresh" /\ tx.id \notin DOMAIN d.objects =>
             Effect(d, tx) = Revived(d, tx.id, tx.amount)
        /\ tx.kind = "ValidatorStake" => Effect(d, tx) = Store(d, tx.from, Debited(from, tx))
        /\ tx.kind = "Blob" => Effect(d, tx) = d
    BY <1>5, <1>7, <1>9, EffectIs DEF from, to
  <2>2. /\ tx.kind = "Transfer" =>
             Effect(p, tx) = Store(Store(p, tx.from, Debited(from, tx)), tx.to, Credited(to, tx))
        /\ tx.kind = "CreateObject" =>
             Effect(p, tx) = PutObject(Store(p, tx.from, Deposited(from)), tx.id, tx.amount)
        /\ tx.kind = "Refresh" /\ tx.id \in DOMAIN p.objects =>
             Effect(p, tx) = PutObject(p, tx.id, p.objects[tx.id] + tx.amount)
        /\ tx.kind = "Refresh" /\ tx.id \notin DOMAIN p.objects =>
             Effect(p, tx) = Revived(p, tx.id, tx.amount)
        /\ tx.kind = "ValidatorStake" => Effect(p, tx) = Store(p, tx.from, Debited(from, tx))
        /\ tx.kind = "Blob" => Effect(p, tx) = p
    BY <1>3, <1>5, <1>6, <1>8, <1>9, EffectIs
  <2>3. CASE tx.kind = "Transfer"
    <3>1. from.balance >= tx.amount
      BY <1>9, <2>3, ExecutesIs DEF from
    <3>2. PICK x \in AccountRecords : x = Debited(from, tx)
      BY <1>0, <1>1, <3>1, RecordFacts DEF from
    <3>3. PICK y \in AccountRecords : y = Credited(to, tx)
      BY <1>0, <1>1, RecordFacts DEF to
    <3>4. PICK m : m = Store(d, tx.from, x)
      OBVIOUS
    <3>5. m \in Dbs
      BY <1>0, <2>3, <3>4, StoreFacts
    <3>6. Store(p, tx.from, x) = Populated(m, K)
      BY <1>0, <1>2, <2>3, <3>4, StoreLocal DEF p
    <3>7. Store(Populated(m, K), tx.to, y) = Populated(Store(m, tx.to, y), K)
      BY <1>0, <1>2, <2>3, <3>5, StoreLocal
    <3> QED BY <2>1, <2>2, <2>3, <3>2, <3>3, <3>4, <3>6, <3>7
  <2>4. CASE tx.kind = "CreateObject"
    <3>1. from.balance >= MIN_STORAGE_DEPOSIT
      BY <1>9, <2>4, ExecutesIs DEF from
    <3>2. PICK x \in AccountRecords : x = Deposited(from)
      BY <1>0, <1>1, <3>1, RecordFacts DEF from
    <3>3. PICK m : m = Store(d, tx.from, x)
      OBVIOUS
    <3>4. m \in Dbs
      BY <1>0, <2>4, <3>3, StoreFacts
    <3>5. Store(p, tx.from, x) = Populated(m, K)
      BY <1>0, <1>2, <2>4, <3>3, StoreLocal DEF p
    <3>6. PutObject(Populated(m, K), tx.id, tx.amount) = Populated(PutObject(m, tx.id, tx.amount), K)
      BY <1>0, <1>2, <2>4, <3>4, PutLocal
    <3> QED BY <2>1, <2>2, <2>4, <3>2, <3>3, <3>5, <3>6
  <2>5. CASE tx.kind = "Refresh" /\ tx.id \in DOMAIN d.objects
    <3>1. PICK v \in Nat : v = d.objects[tx.id] + tx.amount
      <4>1. d.objects[tx.id] \in Nat
        BY <2>5, MapFacts DEF Dbs
      <4> QED BY <1>0, <4>1
    <3>2. Effect(d, tx) = PutObject(d, tx.id, v) /\ Effect(p, tx) = PutObject(p, tx.id, v)
      BY <1>4, <2>1, <2>2, <2>5, <3>1
    <3>3. PutObject(p, tx.id, v) = Populated(PutObject(d, tx.id, v), K)
      BY <1>0, <1>2, <2>5, PutLocal DEF p
    <3> QED BY <3>2, <3>3
  <2>6. CASE tx.kind = "Refresh" /\ tx.id \notin DOMAIN d.objects
    <3>1. Effect(d, tx) = Revived(d, tx.id, tx.amount) /\ Effect(p, tx) = Revived(p, tx.id, tx.amount)
      BY <1>4, <2>1, <2>2, <2>6
    <3>2. Revived(p, tx.id, tx.amount) = Populated(Revived(d, tx.id, tx.amount), K)
      BY <1>0, <1>2, <2>6, PutLocal DEF p
    <3> QED BY <3>1, <3>2
  <2>7. CASE tx.kind = "ValidatorStake"
    <3>1. from.balance >= tx.amount
      BY <1>9, <2>7, ExecutesIs DEF from
    <3>2. PICK x \in AccountRecords : x = Debited(from, tx)
      BY <1>0, <1>1, <3>1, RecordFacts DEF from
    <3>3. Store(p, tx.from, x) = Populated(Store(d, tx.from, x), K)
      BY <1>0, <1>2, <2>7, StoreLocal DEF p
    <3> QED BY <2>1, <2>2, <2>7, <3>2, <3>3
  <2>8. CASE tx.kind = "Blob"
    BY <2>1, <2>2, <2>8 DEF p
  <2> QED BY <2>1, <2>3, <2>4, <2>5, <2>6, <2>7, <2>8
<1> QED BY <1>8, <1>9 DEF p

\* A transaction leaves alone what its declared keys do not name.
LEMMA EffectFrame ==
  ASSUME NEW d \in Dbs, NEW tx, Parallel(tx), NEW K, AccessKeys(tx) \cap K = {}, Executes(d, tx)
  PROVE  Populated(Effect(d, tx), K) = Populated(d, K)
<1> DEFINE from == Account(d, tx.from)
           to == Account(d, tx.to)
<1>0. /\ tx \in Txs /\ tx.amount \in Nat /\ (tx.kind # "Refresh" => tx.from \in Accounts)
      /\ (tx.kind = "Transfer" => tx.to \in Accounts)
      /\ (tx.kind \in {"CreateObject", "Refresh"} => tx.id \in ObjIds)
  BY ParallelKind, TxFields
<1>1. \A a : Account(d, a) \in AccountRecords
  BY AccountType DEF Dbs
<1>2. /\ (tx.kind # "Refresh" => tx.from \notin K) /\ (tx.kind = "Transfer" => tx.to \notin K)
      /\ (tx.kind \in {"CreateObject", "Refresh"} => tx.id \notin K)
  BY KeysAre
<1>3. /\ tx.kind \in {"Transfer", "CreateObject", "Refresh", "ValidatorStake", "Blob"}
      /\ tx.kind = "Transfer" =>
           Effect(d, tx) = Store(Store(d, tx.from, Debited(from, tx)), tx.to, Credited(to, tx))
      /\ tx.kind = "CreateObject" =>
           Effect(d, tx) = PutObject(Store(d, tx.from, Deposited(from)), tx.id, tx.amount)
      /\ tx.kind = "Refresh" /\ tx.id \in DOMAIN d.objects =>
           Effect(d, tx) = PutObject(d, tx.id, d.objects[tx.id] + tx.amount)
      /\ tx.kind = "Refresh" /\ tx.id \notin DOMAIN d.objects =>
           Effect(d, tx) = Revived(d, tx.id, tx.amount)
      /\ tx.kind = "ValidatorStake" => Effect(d, tx) = Store(d, tx.from, Debited(from, tx))
      /\ tx.kind = "Blob" => Effect(d, tx) = d
  BY ProperIs, Shapes, EffectIs
<1> HIDE DEF from, to
<1>4. CASE tx.kind = "Transfer"
  <2>1. from.balance >= tx.amount
    BY <1>4, ExecutesIs DEF from
  <2>2. PICK x \in AccountRecords : x = Debited(from, tx)
    BY <1>0, <1>1, <2>1, RecordFacts DEF from
  <2>3. PICK y \in AccountRecords : y = Credited(to, tx)
    BY <1>0, <1>1, RecordFacts DEF to
  <2>4. PICK m \in Dbs : m = Store(d, tx.from, x) /\ Populated(m, K) = Populated(d, K)
    BY <1>0, <1>2, <1>4, StoreFacts, StoreLocal
  <2>5. Populated(Store(m, tx.to, y), K) = Populated(m, K)
    BY <1>0, <1>2, <1>4, StoreLocal
  <2> QED BY <1>3, <1>4, <2>2, <2>3, <2>4, <2>5
<1>5. CASE tx.kind = "CreateObject"
  <2>1. from.balance >= MIN_STORAGE_DEPOSIT
    BY <1>5, ExecutesIs DEF from
  <2>2. PICK x \in AccountRecords : x = Deposited(from)
    BY <1>0, <1>1, <2>1, RecordFacts DEF from
  <2>3. PICK m \in Dbs : m = Store(d, tx.from, x) /\ Populated(m, K) = Populated(d, K)
    BY <1>0, <1>2, <1>5, StoreFacts, StoreLocal
  <2>4. Populated(PutObject(m, tx.id, tx.amount), K) = Populated(m, K)
    BY <1>0, <1>2, <1>5, PutLocal
  <2> QED BY <1>3, <1>5, <2>2, <2>3, <2>4
<1>6. CASE tx.kind = "Refresh"
  <2>1. PICK v \in Nat : Effect(d, tx) = PutObject(d, tx.id, v) \/ Effect(d, tx) = Revived(d, tx.id, v)
    <3>1. CASE tx.id \in DOMAIN d.objects
      <4>1. d.objects[tx.id] \in Nat
        BY <3>1, MapFacts DEF Dbs
      <4> QED BY <1>0, <1>3, <1>6, <3>1, <4>1
    <3>2. CASE tx.id \notin DOMAIN d.objects
      BY <1>0, <1>3, <1>6, <3>2
    <3> QED BY <3>1, <3>2
  <2> QED BY <1>0, <1>2, <1>6, <2>1, PutLocal
<1>7. CASE tx.kind = "ValidatorStake"
  <2>1. from.balance >= tx.amount
    BY <1>7, ExecutesIs DEF from
  <2>2. PICK x \in AccountRecords : x = Debited(from, tx)
    BY <1>0, <1>1, <2>1, RecordFacts DEF from
  <2> QED BY <1>0, <1>2, <1>3, <1>7, <2>2, StoreLocal
<1>8. CASE tx.kind = "Blob"
  BY <1>3, <1>8
<1> QED BY <1>3, <1>4, <1>5, <1>6, <1>7, <1>8

-----------------------------------------------------------------------------
(* One turn of execute_partition.                                          *)

Fails(r, s, budget, fee) ==
  r.overlay = s /\ r.budget = budget /\ r.ok = FALSE /\ r.gas = 0 /\ r.fee = fee
Succeeds(r, s, budget, gas, fee) ==
  r.overlay = s /\ r.budget = budget /\ r.ok = TRUE /\ r.gas = gas /\ r.fee = fee

Skips(tx, budget) == ~tx.signed \/ budget < Gas[tx.kind]

\* The ways out of one turn of execute_partition.
LEMMA TurnIs ==
  ASSUME NEW s, NEW tx, Parallel(tx), NEW budget \in Nat
  PROVE  /\ Skips(tx, budget) => Fails(Turn(s, tx, budget), s, budget, 0)
         /\ ~Skips(tx, budget) /\ ~CanPay(s, tx) =>
              Fails(Turn(s, tx, budget), Store(s, tx.from, Account(s, tx.from)), budget, 0)
         /\ ~Skips(tx, budget) /\ CanPay(s, tx) /\ Executes(Charged(s, tx), tx) =>
              Succeeds(Turn(s, tx, budget), Effect(Charged(s, tx), tx), budget - Gas[tx.kind], Gas[tx.kind], Fee(tx))
         /\ ~Skips(tx, budget) /\ CanPay(s, tx) /\ ~Executes(Charged(s, tx), tx) =>
              Fails(Turn(s, tx, budget), Charged(s, tx), budget, Fee(tx))
<1>1. Gas[tx.kind] \in Nat /\ tx.signed \in BOOLEAN
  BY ParallelKind, TxFields
<1>2. Skips(tx, budget) => Fails(Turn(s, tx, budget), s, budget, 0)
  BY <1>1 DEF Turn, Fails, Succeeds, Skips
<1>3. ~Skips(tx, budget) /\ ~CanPay(s, tx) =>
        Fails(Turn(s, tx, budget), Store(s, tx.from, Account(s, tx.from)), budget, 0)
  BY <1>1 DEF Turn, Fails, Succeeds, Skips
<1>4. ~Skips(tx, budget) /\ CanPay(s, tx) /\ Executes(Charged(s, tx), tx) =>
        Succeeds(Turn(s, tx, budget), Effect(Charged(s, tx), tx), budget - Gas[tx.kind], Gas[tx.kind], Fee(tx))
  BY <1>1 DEF Turn, Fails, Succeeds, Skips
<1>5. ~Skips(tx, budget) /\ CanPay(s, tx) /\ ~Executes(Charged(s, tx), tx) =>
        Fails(Turn(s, tx, budget), Charged(s, tx), budget, Fee(tx))
  BY <1>1 DEF Turn, Fails, Succeeds, Skips
<1> QED BY <1>2, <1>3, <1>4, <1>5

\* The sender that cannot pay is created, and nothing else.
LEMMA Touched ==
  ASSUME NEW d \in Dbs, NEW tx, Parallel(tx), ~CanPay(d, tx)
  PROVE  /\ tx.kind # "Refresh" /\ tx.from \in Accounts /\ Account(d, tx.from) \in AccountRecords
         /\ tx.from \in AccessKeys(tx)
<1>1. tx \in Txs /\ tx.kind # "Refresh"
  BY ParallelKind, ChargedIs
<1> QED BY <1>1, TxFields, KeysAre, AccountType DEF Dbs

\* What a turn leaves: the gas it used is missing from the budget.
TurnDone(d, tx, budget, r) ==
  /\ r.overlay \in Dbs /\ r.overlay.stakes = d.stakes
  /\ DOMAIN d.accounts \subseteq DOMAIN r.overlay.accounts
  /\ DOMAIN d.objects \subseteq DOMAIN r.overlay.objects
  /\ DOMAIN d.ghosts \subseteq DOMAIN r.overlay.ghosts
  /\ r.budget \in Nat /\ r.gas \in Nat /\ r.fee \in Nat /\ r.budget + r.gas = budget
  /\ r.ok \in BOOLEAN
  /\ \A a : Account(r.overlay, a).nonce >= Account(d, a).nonce
  /\ r.ok /\ tx.kind \in OverlayNonces => /\ Account(d, tx.from).nonce = tx.nonce
                                      /\ Account(r.overlay, tx.from).nonce = tx.nonce + 1

\* One turn leaves a StateDB, and takes from the budget the gas it counts.
LEMMA TurnFacts ==
  ASSUME NEW d \in Dbs, NEW tx, Parallel(tx), NEW budget \in Nat
  PROVE  TurnDone(d, tx, budget, Turn(d, tx, budget))
<1> DEFINE r == Turn(d, tx, budget)
<1> SUFFICES TurnDone(d, tx, budget, r)
  OBVIOUS
<1>0. tx \in Txs /\ Gas[tx.kind] \in Nat /\ Fee(tx) \in Nat /\ tx.signed \in BOOLEAN
  BY ParallelKind, TxFields
<1>1. \A a : Account(d, a).nonce \in Nat
  <2>1. \A a : Account(d, a) \in AccountRecords
    BY AccountType DEF Dbs
  <2> QED BY <2>1 DEF AccountRecords
<1>2. CASE Skips(tx, budget)
  <2>1. Fails(r, d, budget, 0)
    BY <1>2, TurnIs
  <2>2. r.overlay = d /\ r.budget = budget /\ r.ok = FALSE /\ r.gas = 0 /\ r.fee = 0
    BY <2>1 DEF Fails, Succeeds
  <2> HIDE DEF r
  <2>3. \A a : Account(r.overlay, a).nonce >= Account(d, a).nonce
    BY <1>1, <2>2
  <2>4. ~r.ok /\ r.ok \in BOOLEAN
    BY <2>2, Zenon
  <2> QED BY <2>2, <2>3, <2>4 DEF TurnDone
<1>3. CASE ~Skips(tx, budget) /\ ~CanPay(d, tx)
  <2>1. Fails(r, Store(d, tx.from, Account(d, tx.from)), budget, 0)
    BY <1>3, TurnIs
  <2>2. PICK e : e = Store(d, tx.from, Account(d, tx.from))
    OBVIOUS
  <2>3. r.overlay = e /\ r.budget = budget /\ r.ok = FALSE /\ r.gas = 0 /\ r.fee = 0
    BY <2>1, <2>2 DEF Fails, Succeeds
  <2>4. tx.from \in Accounts /\ Account(d, tx.from) \in AccountRecords
    BY <1>3, Touched
  <2>5. /\ e \in Dbs /\ e.objects = d.objects /\ e.ghosts = d.ghosts /\ e.stakes = d.stakes
        /\ DOMAIN d.accounts \subseteq DOMAIN e.accounts
        /\ \A a : Account(e, a) = Account(d, a)
    BY <2>2, <2>4, StoreFacts, StoreGrows
  <2> HIDE DEF r
  <2>6. \A a : Account(r.overlay, a).nonce >= Account(d, a).nonce
    BY <1>1, <2>3, <2>5
  <2>7. ~r.ok /\ r.ok \in BOOLEAN
    BY <2>3, Zenon
  <2> QED BY <2>3, <2>5, <2>6, <2>7 DEF TurnDone
<1>4. CASE ~Skips(tx, budget) /\ CanPay(d, tx)
  <2>1. PICK c : c = Charged(d, tx)
    OBVIOUS
  <2>2. /\ c \in Dbs /\ c.objects = d.objects /\ c.ghosts = d.ghosts /\ c.stakes = d.stakes
        /\ \A a : Account(c, a).nonce = Account(d, a).nonce
        /\ DOMAIN d.accounts \subseteq DOMAIN c.accounts
    BY <1>0, <1>4, <2>1, ChargedFacts
  <2>3. CASE Executes(c, tx)
    <3>1. PICK e : e = Effect(c, tx)
      OBVIOUS
    <3>2. After(c, e, tx)
      BY <2>2, <2>3, <3>1, EffectFacts
    <3>3. Succeeds(r, e, budget - Gas[tx.kind], Gas[tx.kind], Fee(tx))
      BY <1>4, <2>1, <2>3, <3>1, TurnIs
    <3>4. /\ r.overlay = e /\ r.budget = budget - Gas[tx.kind] /\ r.ok = TRUE
          /\ r.gas = Gas[tx.kind] /\ r.fee = Fee(tx)
      BY <3>3 DEF Fails, Succeeds
    <3>5. r.budget \in Nat /\ r.gas \in Nat /\ r.budget + r.gas = budget
      BY <1>0, <1>4, <3>4 DEF Skips
    <3> QED BY <1>0, <1>1, <2>2, <3>2, <3>4, <3>5 DEF TurnDone, After
  <2>4. CASE ~Executes(c, tx)
    <3>1. Fails(r, c, budget, Fee(tx))
      BY <1>4, <2>1, <2>4, TurnIs
    <3>2. r.overlay = c /\ r.budget = budget /\ r.ok = FALSE /\ r.gas = 0 /\ r.fee = Fee(tx)
      BY <3>1 DEF Fails, Succeeds
    <3> HIDE DEF r
    <3>3. \A a : Account(r.overlay, a).nonce >= Account(d, a).nonce
      BY <1>1, <2>2, <3>2
    <3>4. ~r.ok /\ r.ok \in BOOLEAN
      BY <3>2, Zenon
    <3> QED BY <1>0, <2>2, <3>2, <3>3, <3>4 DEF TurnDone
  <2> QED BY <2>3, <2>4
<1> QED BY <1>2, <1>3, <1>4

\* A turn on an overlay that holds the keys of the transaction is the turn on
\* the whole state, seen through the keys of the overlay.
LEMMA TurnLocal ==
  ASSUME NEW d \in Dbs, NEW tx, Parallel(tx), NEW budget \in Nat, NEW K, AccessKeys(tx) \subseteq K
  PROVE  LET r == Turn(d, tx, budget)
             q == Turn(Populated(d, K), tx, budget)
         IN /\ q.overlay = Populated(r.overlay, K) /\ q.budget = r.budget /\ q.ok = r.ok
            /\ q.gas = r.gas /\ q.fee = r.fee
<1> DEFINE r == Turn(d, tx, budget)
           p == Populated(d, K)
           q == Turn(p, tx, budget)
           Same == /\ q.overlay = Populated(r.overlay, K) /\ q.budget = r.budget /\ q.ok = r.ok
                   /\ q.gas = r.gas /\ q.fee = r.fee
<1>0. tx \in Txs
  BY ParallelKind
<1>1. CanPay(p, tx) <=> CanPay(d, tx)
  BY ChargedLocal
<1>2. ASSUME Skips(tx, budget) PROVE Same
  <2>1. Fails(r, d, budget, 0) /\ Fails(q, p, budget, 0)
    BY <1>2, TurnIs
  <2> HIDE DEF r, q, p
  <2>2. r.overlay = d /\ r.budget = budget /\ r.ok = FALSE /\ r.gas = 0 /\ r.fee = 0
    BY <2>1 DEF Fails, Succeeds
  <2> QED BY <2>1, <2>2 DEF Fails, p
<1>3. ASSUME ~Skips(tx, budget), ~CanPay(d, tx) PROVE Same
  <2>1. PICK a : a = Account(d, tx.from)
    OBVIOUS
  <2>2. tx.from \in Accounts /\ a \in AccountRecords /\ tx.from \in K
    BY <1>3, <2>1, Touched
  <2>3. Account(p, tx.from) = a /\ Store(p, tx.from, a) = Populated(Store(d, tx.from, a), K)
    BY <2>1, <2>2, StoreLocal
  <2> HIDE DEF p
  <2>4. /\ Fails(r, Store(d, tx.from, a), budget, 0)
        /\ Fails(q, Store(p, tx.from, a), budget, 0)
    BY <1>1, <1>3, <2>1, <2>3, TurnIs
  <2> HIDE DEF r, q
  <2>5. /\ r.overlay = Store(d, tx.from, a) /\ r.budget = budget /\ r.ok = FALSE
        /\ r.gas = 0 /\ r.fee = 0
    BY <2>4 DEF Fails, Succeeds
  <2> QED BY <2>3, <2>4, <2>5 DEF Fails
<1>4. ASSUME ~Skips(tx, budget), CanPay(d, tx) PROVE Same
  <2>1. PICK c : c = Charged(d, tx)
    OBVIOUS
  <2>2. c \in Dbs
    BY <1>0, <1>4, <2>1, ChargedFacts
  <2>3. Charged(p, tx) = Populated(c, K)
    BY <1>4, <2>1, ChargedLocal
  <2>4. Executes(Populated(c, K), tx) <=> Executes(c, tx)
    BY <2>2, EffectLocal
  <2> HIDE DEF p
  <2>5. CASE Executes(c, tx)
    <3>1. Effect(Populated(c, K), tx) = Populated(Effect(c, tx), K)
      BY <2>2, <2>5, EffectLocal
    <3>2. Succeeds(r, Effect(c, tx), budget - Gas[tx.kind], Gas[tx.kind], Fee(tx))
      BY <1>4, <2>1, <2>5, TurnIs
    <3>3. Succeeds(q, Populated(Effect(c, tx), K), budget - Gas[tx.kind], Gas[tx.kind], Fee(tx))
      BY <1>1, <1>4, <2>3, <2>4, <2>5, <3>1, TurnIs
    <3> HIDE DEF r, q
    <3>4. /\ r.overlay = Effect(c, tx) /\ r.budget = budget - Gas[tx.kind] /\ r.ok = TRUE
          /\ r.gas = Gas[tx.kind] /\ r.fee = Fee(tx)
      BY <3>2 DEF Fails, Succeeds
    <3> QED BY <3>3, <3>4 DEF Succeeds
  <2>6. CASE ~Executes(c, tx)
    <3>2. Fails(r, c, budget, Fee(tx))
      BY <1>4, <2>1, <2>6, TurnIs
    <3>3. Fails(q, Populated(c, K), budget, Fee(tx))
      BY <1>1, <1>4, <2>3, <2>4, <2>6, TurnIs
    <3> HIDE DEF r, q
    <3>4. r.overlay = c /\ r.budget = budget /\ r.ok = FALSE /\ r.gas = 0 /\ r.fee = Fee(tx)
      BY <3>2 DEF Fails, Succeeds
    <3> QED BY <3>3, <3>4 DEF Fails
  <2> QED BY <2>5, <2>6
<1> QED BY <1>2, <1>3, <1>4

\* A turn touches nothing but the keys of the transaction.
LEMMA TurnFrame ==
  ASSUME NEW d \in Dbs, NEW tx, Parallel(tx), NEW budget \in Nat, NEW K, AccessKeys(tx) \cap K = {}
  PROVE  Populated(Turn(d, tx, budget).overlay, K) = Populated(d, K)
<1>0. tx \in Txs
  BY ParallelKind
<1>2. CASE Skips(tx, budget)
  <2>1. Fails(Turn(d, tx, budget), d, budget, 0)
    BY <1>2, TurnIs
  <2> QED BY <2>1 DEF Fails
<1>3. CASE ~Skips(tx, budget) /\ ~CanPay(d, tx)
  <2>1. PICK a : a = Account(d, tx.from)
    OBVIOUS
  <2>2. tx.from \in Accounts /\ a \in AccountRecords /\ tx.from \notin K
    BY <1>3, <2>1, Touched
  <2>3. Turn(d, tx, budget).overlay = Store(d, tx.from, a)
    <3>1. Fails(Turn(d, tx, budget), Store(d, tx.from, a), budget, 0)
      BY <1>3, <2>1, TurnIs
    <3> QED BY <3>1 DEF Fails
  <2> QED BY <2>2, <2>3, StoreLocal
<1>4. CASE ~Skips(tx, budget) /\ CanPay(d, tx)
  <2>1. PICK c : c = Charged(d, tx)
    OBVIOUS
  <2>2. c \in Dbs /\ Populated(c, K) = Populated(d, K)
    BY <1>0, <1>4, <2>1, ChargedFacts, ChargedLocal
  <2>3. CASE Executes(c, tx)
    <3>1. Turn(d, tx, budget).overlay = Effect(c, tx)
      BY <1>4, <2>1, <2>3, TurnIs DEF Fails, Succeeds
    <3> QED BY <2>2, <2>3, <3>1, EffectFrame
  <2>4. CASE ~Executes(c, tx)
    <3>1. Turn(d, tx, budget).overlay = c
      BY <1>4, <2>1, <2>4, TurnIs DEF Fails, Succeeds
    <3> QED BY <2>2, <3>1
  <2> QED BY <2>3, <2>4
<1> QED BY <1>2, <1>3, <1>4

-----------------------------------------------------------------------------
(* Tokens.                                                                 *)

\* A sum once the summand of one element is replaced or added.
LEMMA SumReplaced ==
  ASSUME NEW D, IsFiniteSet(D), NEW a, NEW f, \A x \in D : f[x] \in Nat,
         NEW g, \A x \in D \cup {a} : g[x] \in Nat, \A x \in D \ {a} : g[x] = f[x]
  PROVE  /\ SumOver(f, D) \in Nat
         /\ SumOver(g, D \cup {a}) = (SumOver(f, D) - (IF a \in D THEN f[a] ELSE 0)) + g[a]
<1>1. PICK R : R = D \ {a}
  OBVIOUS
<1>2. IsFiniteSet(R) /\ IsFiniteSet(D \cup {a}) /\ (D \cup {a}) \ {a} = R
  BY <1>1, FS_RemoveElement, FS_AddElement
<1>3. SumOver(f, D) \in Nat /\ SumOver(f, R) \in Nat
  BY <1>1, <1>2, SumType
<1>4. SumOver(g, R) = SumOver(f, R)
  BY <1>1, <1>2, SumCongruent
<1>5. SumOver(g, D \cup {a}) = g[a] + SumOver(g, R)
  <2>1. PICK E : E = D \cup {a}
    OBVIOUS
  <2>2. IsFiniteSet(E) /\ a \in E /\ E \ {a} = R /\ \A x \in E : g[x] \in Nat
    BY <1>2, <2>1
  <2>3. SumOver(g, E) = g[a] + SumOver(g, E \ {a})
    BY <2>2, SumOfElement
  <2> QED BY <2>1, <2>2, <2>3
<1>6. SumOver(f, D) = (IF a \in D THEN f[a] ELSE 0) + SumOver(f, R)
  <2>1. CASE a \in D
    BY <1>1, <2>1, SumOfElement
  <2>2. CASE a \notin D
    <3>1. R = D
      BY <1>1, <2>2
    <3> QED BY <1>3, <2>2, <3>1
  <2> QED BY <2>1, <2>2
<1>7. g[a] \in Nat /\ (a \in D => f[a] \in Nat)
  OBVIOUS
<1> QED BY <1>3, <1>4, <1>5, <1>6, <1>7

Worth(x) == x.balance + x.deposit
Holdings(m) == SumOver([a \in DOMAIN m |-> m[a].balance + m[a].deposit], DOMAIN m)
Staked(m) == SumOver([v \in DOMAIN m |-> m[v].amount], DOMAIN m)

\* The supply is what accounts hold plus what is staked.
LEMMA SupplyIs ==
  ASSUME NEW d \in Dbs
  PROVE  /\ Supply(d) = Holdings(d.accounts) + Staked(d.stakes)
         /\ Holdings(d.accounts) \in Nat /\ Staked(d.stakes) \in Nat
<1>1. d.accounts \in Accts /\ d.stakes \in Stakes
  BY DEF Dbs
<1>2. /\ DOMAIN d.accounts \subseteq Accounts
      /\ \A a \in DOMAIN d.accounts : d.accounts[a] \in AccountRecords
  BY <1>1, MapFacts DEF Accts
<1>3. /\ DOMAIN d.stakes \subseteq StakeIds
      /\ \A a \in DOMAIN d.stakes : d.stakes[a] \in StakeRecords
  BY <1>1, MapFacts DEF Stakes
<1>4. IsFiniteSet(DOMAIN d.accounts) /\ IsFiniteSet(DOMAIN d.stakes)
  BY <1>2, <1>3, ExecutorAssumption, FS_Subset
<1> DEFINE f == [a \in DOMAIN d.accounts |-> d.accounts[a].balance + d.accounts[a].deposit]
           g == [v \in DOMAIN d.stakes |-> d.stakes[v].amount]
<1>5. /\ \A a \in DOMAIN d.accounts : f[a] \in Nat
      /\ \A a \in DOMAIN d.stakes : g[a] \in Nat
  BY <1>2, <1>3 DEF AccountRecords, StakeRecords
<1> HIDE DEF f, g
<1>6. SumOver(f, DOMAIN d.accounts) \in Nat /\ SumOver(g, DOMAIN d.stakes) \in Nat
  BY <1>4, <1>5, SumType
<1> QED BY <1>6 DEF Supply, Holdings, Staked, f, g

\* The supply is a number of tokens.
LEMMA SupplyNat ==
  ASSUME NEW d \in Dbs
  PROVE  Supply(d) \in Nat /\ Supply(d) \in Int
<1>1. PICK h \in Nat, k \in Nat : Supply(d) = h + k
  BY SupplyIs
<1> QED BY <1>1

\* Storing an account changes the supply by the difference.
LEMMA StoreSupply ==
  ASSUME NEW d \in Dbs, NEW a \in Accounts, NEW x \in AccountRecords
  PROVE  /\ Supply(Store(d, a, x)) = (Supply(d) - Worth(Account(d, a))) + Worth(x)
         /\ Supply(d) \in Int
<1> DEFINE m == d.accounts
           n == With(m, a, x)
           D == DOMAIN m
           f == [b \in D |-> m[b].balance + m[b].deposit]
           g == [b \in DOMAIN n |-> n[b].balance + n[b].deposit]
<1>1. m \in Accts
  BY DEF Dbs
<1>2. D \subseteq Accounts /\ \A b \in D : m[b] \in AccountRecords
  BY <1>1, MapFacts DEF Accts
<1>3. IsFiniteSet(D)
  BY <1>2, ExecutorAssumption, FS_Subset
<1>4. DOMAIN n = D \cup {a} /\ n[a] = x /\ \A b \in D \ {a} : n[b] = m[b]
  BY DEF With
<1>5. \A b \in D : f[b] \in Nat
  BY <1>2 DEF AccountRecords
<1>6. g[a] = Worth(x) /\ g[a] \in Nat
  BY <1>4 DEF Worth, AccountRecords
<1>7. \A b \in D \ {a} : g[b] = f[b]
  BY <1>4
<1>8. \A b \in D \cup {a} : g[b] \in Nat
  BY <1>5, <1>6, <1>7
<1>9. Worth(Account(d, a)) = (IF a \in D THEN f[a] ELSE 0)
  BY DEF Worth, Account
<1>10. Worth(Account(d, a)) \in Nat
  BY <1>5, <1>9
<1>11. Holdings(m) = SumOver(f, D) /\ Holdings(n) = SumOver(g, DOMAIN n)
  BY DEF Holdings
<1> HIDE DEF f, g, n, D, m
<1>12. /\ Holdings(m) \in Nat
       /\ Holdings(n) = (Holdings(m) - (IF a \in D THEN f[a] ELSE 0)) + g[a]
  BY <1>3, <1>4, <1>5, <1>7, <1>8, <1>11, SumReplaced
<1>13. PICK e : e = Store(d, a, x)
  OBVIOUS
<1>14. e \in Dbs /\ e.accounts = n /\ e.stakes = d.stakes
  BY <1>13, StoreFacts DEF n, m
<1>15. Supply(e) = Holdings(n) + Staked(d.stakes) /\ Supply(d) = Holdings(m) + Staked(d.stakes)
       /\ Staked(d.stakes) \in Nat
  BY <1>14, SupplyIs DEF m
<1> QED BY <1>6, <1>9, <1>10, <1>12, <1>13, <1>15

\* Neither objects nor ghosts hold tokens.
LEMMA PutSupply ==
  ASSUME NEW d \in Dbs, NEW id \in ObjIds, NEW v \in Nat
  PROVE  Supply(PutObject(d, id, v)) = Supply(d) /\ Supply(Revived(d, id, v)) = Supply(d)
<1>1. PutObject(d, id, v).accounts = d.accounts /\ PutObject(d, id, v).stakes = d.stakes
  BY PutOne
<1>2. Revived(d, id, v).accounts = d.accounts /\ Revived(d, id, v).stakes = d.stakes
  BY ReviveOne
<1> QED BY <1>1, <1>2 DEF Supply

\* The fee leaves the supply.
LEMMA ChargedSupply ==
  ASSUME NEW d \in Dbs, NEW tx \in Txs, CanPay(d, tx)
  PROVE  Supply(Charged(d, tx)) <= Supply(d) /\ Supply(d) \in Int /\ Supply(Charged(d, tx)) \in Int
<1>0. Supply(d) \in Int
  BY SupplyIs
<1>1. CASE tx.kind = "Refresh"
  BY <1>0, <1>1, ChargedIs
<1>2. CASE tx.kind # "Refresh"
  <2>1. /\ Charged(d, tx) = Store(d, tx.from, Paid(Account(d, tx.from), tx))
        /\ Account(d, tx.from).balance >= Fee(tx) /\ tx.from \in Accounts /\ Fee(tx) \in Nat
    BY <1>2, ChargedIs, TxFields
  <2>2. PICK a \in AccountRecords : a = Account(d, tx.from)
    BY AccountType DEF Dbs
  <2>3. PICK x \in AccountRecords : /\ x = Paid(a, tx)
                                    /\ x.balance = a.balance - Fee(tx) /\ x.deposit = a.deposit
    BY <2>1, <2>2, RecordFacts
  <2>4. Supply(Charged(d, tx)) = (Supply(d) - Worth(a)) + Worth(x)
    BY <2>1, <2>2, <2>3, StoreSupply
  <2>5. a.balance \in Nat /\ a.deposit \in Nat
    BY DEF AccountRecords
  <2> QED BY <1>0, <2>1, <2>3, <2>4, <2>5 DEF Worth
<1> QED BY <1>1, <1>2

\* The effect of a transaction adds no token.
LEMMA EffectSupply ==
  ASSUME NEW d \in Dbs, NEW tx, Parallel(tx), Executes(d, tx)
  PROVE  Supply(Effect(d, tx)) <= Supply(d)
<1> DEFINE from == Account(d, tx.from)
           to == Account(d, tx.to)
<1>0. /\ tx \in Txs /\ tx.amount \in Nat /\ (tx.kind # "Refresh" => tx.from \in Accounts)
      /\ (tx.kind = "Transfer" => tx.to \in Accounts)
      /\ (tx.kind \in {"CreateObject", "Refresh"} => tx.id \in ObjIds)
  BY ParallelKind, TxFields
<1>1. \A a : Account(d, a) \in AccountRecords
  BY AccountType DEF Dbs
<1>2. Supply(d) \in Int
  BY SupplyIs
<1>3. /\ tx.kind \in {"Transfer", "CreateObject", "Refresh", "ValidatorStake", "Blob"}
      /\ tx.kind = "Transfer" =>
           Effect(d, tx) = Store(Store(d, tx.from, Debited(from, tx)), tx.to, Credited(to, tx))
      /\ tx.kind = "CreateObject" =>
           Effect(d, tx) = PutObject(Store(d, tx.from, Deposited(from)), tx.id, tx.amount)
      /\ tx.kind = "Refresh" /\ tx.id \in DOMAIN d.objects =>
           Effect(d, tx) = PutObject(d, tx.id, d.objects[tx.id] + tx.amount)
      /\ tx.kind = "Refresh" /\ tx.id \notin DOMAIN d.objects =>
           Effect(d, tx) = Revived(d, tx.id, tx.amount)
      /\ tx.kind = "ValidatorStake" => Effect(d, tx) = Store(d, tx.from, Debited(from, tx))
      /\ tx.kind = "Blob" => Effect(d, tx) = d
  BY ProperIs, Shapes, EffectIs
<1>4. from \in AccountRecords /\ to \in AccountRecords
  BY <1>1
<1>5. from.balance \in Nat /\ from.deposit \in Nat /\ to.balance \in Nat /\ to.deposit \in Nat
  BY <1>4 DEF AccountRecords
<1> HIDE DEF from, to
<1>6. CASE tx.kind = "Transfer"
  <2>1. tx.from # tx.to /\ from.balance >= tx.amount
    BY <1>6, ExecutesIs DEF from
  <2>2. PICK x \in AccountRecords : /\ x = Debited(from, tx)
                                    /\ x.balance = from.balance - tx.amount /\ x.deposit = from.deposit
    BY <1>0, <1>4, <2>1, RecordFacts
  <2>3. PICK y \in AccountRecords : /\ y = Credited(to, tx)
                                    /\ y.balance = to.balance + tx.amount /\ y.deposit = to.deposit
    BY <1>0, <1>4, RecordFacts
  <2>4. PICK m : m = Store(d, tx.from, x)
    OBVIOUS
  <2>5. m \in Dbs /\ Account(m, tx.to) = to
    BY <1>0, <1>6, <2>1, <2>4, StoreFacts DEF to
  <2>6. Supply(m) = (Supply(d) - Worth(from)) + Worth(x)
    BY <1>0, <1>6, <2>4, StoreSupply DEF from
  <2>7. Supply(Store(m, tx.to, y)) = (Supply(m) - Worth(to)) + Worth(y)
    BY <1>0, <1>6, <2>5, StoreSupply
  <2>8. Effect(d, tx) = Store(m, tx.to, y)
    BY <1>3, <1>6, <2>2, <2>3, <2>4
  <2> QED BY <1>0, <1>2, <1>5, <2>2, <2>3, <2>6, <2>7, <2>8 DEF Worth
<1>7. CASE tx.kind = "CreateObject"
  <2>1. from.balance >= MIN_STORAGE_DEPOSIT /\ MIN_STORAGE_DEPOSIT \in Nat
    BY <1>7, ExecutesIs, ExecutorAssumption DEF from
  <2>2. PICK x \in AccountRecords : /\ x = Deposited(from)
                                    /\ x.balance = from.balance - MIN_STORAGE_DEPOSIT
                                    /\ x.deposit = from.deposit + MIN_STORAGE_DEPOSIT
    BY <1>0, <1>4, <2>1, RecordFacts
  <2>3. PICK m : m = Store(d, tx.from, x)
    OBVIOUS
  <2>4. m \in Dbs /\ Supply(m) = (Supply(d) - Worth(from)) + Worth(x)
    BY <1>0, <1>7, <2>3, StoreFacts, StoreSupply DEF from
  <2>5. Effect(d, tx) = PutObject(m, tx.id, tx.amount)
    BY <1>3, <1>7, <2>2, <2>3
  <2>6. Supply(Effect(d, tx)) = Supply(m)
    BY <1>0, <1>7, <2>4, <2>5, PutSupply
  <2> QED BY <1>2, <1>5, <2>1, <2>2, <2>4, <2>6 DEF Worth
<1>8. CASE tx.kind = "Refresh"
  <2>1. PICK v \in Nat : Effect(d, tx) = PutObject(d, tx.id, v) \/ Effect(d, tx) = Revived(d, tx.id, v)
    <3>1. CASE tx.id \in DOMAIN d.objects
      <4>1. d.objects[tx.id] \in Nat
        BY <3>1, MapFacts DEF Dbs
      <4> QED BY <1>0, <1>3, <1>8, <3>1, <4>1
    <3>2. CASE tx.id \notin DOMAIN d.objects
      BY <1>0, <1>3, <1>8, <3>2
    <3> QED BY <3>1, <3>2
  <2> QED BY <1>0, <1>2, <1>8, <2>1, PutSupply
<1>9. CASE tx.kind = "ValidatorStake"
  <2>1. from.balance >= tx.amount
    BY <1>9, ExecutesIs DEF from
  <2>2. PICK x \in AccountRecords : /\ x = Debited(from, tx)
                                    /\ x.balance = from.balance - tx.amount /\ x.deposit = from.deposit
    BY <1>0, <1>4, <2>1, RecordFacts
  <2>3. Supply(Effect(d, tx)) = (Supply(d) - Worth(from)) + Worth(x)
    BY <1>0, <1>3, <1>9, <2>2, StoreSupply DEF from
  <2> QED BY <1>0, <1>2, <1>5, <2>2, <2>3 DEF Worth
<1>10. CASE tx.kind = "Blob"
  BY <1>2, <1>3, <1>10
<1> QED BY <1>3, <1>6, <1>7, <1>8, <1>9, <1>10

\* Nor does a turn.
LEMMA TurnSupply ==
  ASSUME NEW d \in Dbs, NEW tx, Parallel(tx), NEW budget \in Nat
  PROVE  Supply(Turn(d, tx, budget).overlay) <= Supply(d)
<1>0. tx \in Txs /\ Supply(d) \in Int
  BY ParallelKind, SupplyIs
<1>1. CASE Skips(tx, budget)
  <2>1. Fails(Turn(d, tx, budget), d, budget, 0)
    BY <1>1, TurnIs
  <2> QED BY <1>0, <2>1 DEF Fails
<1>2. CASE ~Skips(tx, budget) /\ ~CanPay(d, tx)
  <2>1. PICK a : a = Account(d, tx.from)
    OBVIOUS
  <2>2. tx.from \in Accounts /\ a \in AccountRecords
    BY <1>2, <2>1, Touched
  <2>3. Fails(Turn(d, tx, budget), Store(d, tx.from, a), budget, 0)
    BY <1>2, <2>1, TurnIs
  <2>4. Supply(Store(d, tx.from, a)) = (Supply(d) - Worth(a)) + Worth(a)
    BY <2>1, <2>2, StoreSupply
  <2>5. Worth(a) \in Nat
    BY <2>2 DEF Worth, AccountRecords
  <2> QED BY <1>0, <2>3, <2>4, <2>5 DEF Fails
<1>3. CASE ~Skips(tx, budget) /\ CanPay(d, tx)
  <2>1. PICK c : c = Charged(d, tx)
    OBVIOUS
  <2>2. c \in Dbs /\ Supply(c) <= Supply(d) /\ Supply(c) \in Int
    BY <1>0, <1>3, <2>1, ChargedFacts, ChargedSupply
  <2>3. CASE Executes(c, tx)
    <3>1. Succeeds(Turn(d, tx, budget), Effect(c, tx), budget - Gas[tx.kind], Gas[tx.kind], Fee(tx))
      BY <1>3, <2>1, <2>3, TurnIs
    <3>2. Supply(Effect(c, tx)) <= Supply(c) /\ Effect(c, tx) \in Dbs
      BY <2>2, <2>3, EffectSupply, EffectFacts DEF After
    <3>3. Supply(Effect(c, tx)) \in Int
      BY <3>2, SupplyIs
    <3>4. Turn(d, tx, budget).overlay = Effect(c, tx)
      BY <3>1 DEF Succeeds
    <3> QED BY <1>0, <2>2, <3>2, <3>3, <3>4
  <2>4. CASE ~Executes(c, tx)
    <3>1. Fails(Turn(d, tx, budget), c, budget, Fee(tx))
      BY <1>3, <2>1, <2>4, TurnIs
    <3> QED BY <2>2, <3>1 DEF Fails
  <2> QED BY <2>3, <2>4
<1> QED BY <1>1, <1>2, <1>3

-----------------------------------------------------------------------------
(* The partitions.                                                         *)

PartitionStep(groups, txs, i) ==
  IF txs[i].kind \in SerialKinds THEN groups ELSE Joined(groups, txs, i)

\* Partitions of the first n transactions: no two share an index or a key.
Grouping(groups, txs, n) ==
  /\ groups \subseteq SUBSET (1 .. n) /\ {} \notin groups
  /\ \A g, h \in groups : g # h => /\ g \cap h = {}
                                  /\ \A i \in g, j \in h : AccessKeys(txs[i]) \cap AccessKeys(txs[j]) = {}
  /\ UNION groups = {i \in 1 .. n : txs[i].kind \notin SerialKinds}

\* Two transactions of a block that share no key.
Apart(txs, i, j) == AccessKeys(txs[i]) \cap AccessKeys(txs[j]) = {}

\* A transaction joins the partitions it shares a key with.
LEMMA JoinedGroups ==
  ASSUME NEW txs, NEW n \in Nat, n # 0, NEW groups, Grouping(groups, txs, n - 1)
  PROVE  Grouping(PartitionStep(groups, txs, n), txs, n)
<1>1. /\ 1 .. (n - 1) \subseteq 1 .. n /\ n \in 1 .. n /\ n \notin 1 .. (n - 1)
      /\ \A i \in 1 .. n : i = n \/ i \in 1 .. (n - 1)
  OBVIOUS
<1>2. CASE txs[n].kind \in SerialKinds
  <2>1. PartitionStep(groups, txs, n) = groups
    BY <1>2 DEF PartitionStep
  <2>2. {i \in 1 .. n : txs[i].kind \notin SerialKinds} =
          {i \in 1 .. (n - 1) : txs[i].kind \notin SerialKinds}
    BY <1>1, <1>2
  <2>3. groups \subseteq SUBSET (1 .. n)
    BY <1>1 DEF Grouping
  <2> QED BY <2>1, <2>2, <2>3 DEF Grouping
<1>3. CASE txs[n].kind \notin SerialKinds
  <2>1. PICK shared : shared = {g \in groups : \E j \in g : AccessKeys(txs[j]) \cap AccessKeys(txs[n]) # {}}
    OBVIOUS
  <2>2. PICK new : new = (UNION shared) \cup {n}
    OBVIOUS
  <2>3. PICK next : next = (groups \ shared) \cup {new}
    OBVIOUS
  <2>4. PartitionStep(groups, txs, n) = next
    BY <1>3, <2>1, <2>2, <2>3 DEF PartitionStep, Joined
  <2>5. /\ \A g \in groups : g \subseteq 1 .. (n - 1) /\ g # {}
        /\ \A g, h \in groups : g # h => g \cap h = {}
        /\ \A g, h \in groups : g # h => \A i \in g, j \in h : Apart(txs, i, j)
        /\ UNION groups = {i \in 1 .. (n - 1) : txs[i].kind \notin SerialKinds}
    BY DEF Grouping, Apart
  <2>6. /\ shared \subseteq groups
        /\ \A g \in groups \ shared : \A i \in g : Apart(txs, i, n)
    BY <2>1 DEF Apart
  <2>7. /\ n \in new /\ \A i : i \in new <=> (i = n \/ \E h \in shared : i \in h)
        /\ \A g : g \in next <=> (g = new \/ (g \in groups /\ g \notin shared))
    <3>0. PICK u : u = UNION shared
      OBVIOUS
    <3>1. \A i : i \in new <=> (i = n \/ \E h \in shared : i \in h)
      <4>1. \A i : i \in u <=> \E h \in shared : i \in h
        BY <3>0
      <4>2. new = u \cup {n}
        BY <2>2, <3>0
      <4> QED BY <4>1, <4>2
    <3>2. \A g : g \in next <=> (g = new \/ (g \in groups /\ g \notin shared))
      BY <2>3
    <3> QED BY <3>1, <3>2
  <2>8. new \subseteq 1 .. n
    BY <1>1, <2>5, <2>6, <2>7
  <2>9. next \subseteq SUBSET (1 .. n) /\ {} \notin next
    <3>1. \A g \in next : g \subseteq 1 .. n /\ g # {}
      BY <1>1, <2>5, <2>7, <2>8
    <3> QED BY <3>1
  <2>10. ASSUME NEW g \in groups, g \notin shared
         PROVE  g \cap new = {} /\ \A i \in g, j \in new : Apart(txs, i, j) /\ Apart(txs, j, i)
    <3>1. \A h \in shared : g # h /\ h \in groups
      BY <2>6, <2>10
    <3>2. n \notin g
      BY <1>1, <2>5
    <3>3. ASSUME NEW j \in g, j \in new PROVE FALSE
      <4>1. PICK h \in shared : j \in h
        BY <2>7, <3>2, <3>3
      <4>2. g \cap h = {}
        BY <2>5, <3>1, <4>1
      <4> QED BY <3>3, <4>1, <4>2
    <3>4. ASSUME NEW i \in g, NEW j \in new PROVE Apart(txs, i, j)
      <4>1. CASE j = n
        BY <2>6, <2>10, <4>1
      <4>2. CASE j # n
        <5>1. PICK h \in shared : j \in h
          BY <2>7, <4>2
        <5> QED BY <2>5, <3>1, <5>1
      <4> QED BY <4>1, <4>2
    <3>5. \A i, j : Apart(txs, i, j) => Apart(txs, j, i)
      BY DEF Apart
    <3> QED BY <3>3, <3>4, <3>5
  <2>11. ASSUME NEW g \in next, NEW h \in next, g # h
         PROVE  g \cap h = {} /\ \A i \in g, j \in h : Apart(txs, i, j)
    <3>1. CASE g = new
      <4>1. h \in groups /\ h \notin shared
        BY <2>7, <2>11, <3>1
      <4>2. h \cap new = {} /\ \A i \in h, j \in new : Apart(txs, i, j) /\ Apart(txs, j, i)
        BY <2>10, <4>1
      <4> QED BY <3>1, <4>2
    <3>2. CASE h = new
      <4>1. g \in groups /\ g \notin shared
        BY <2>7, <2>11, <3>2
      <4> QED BY <2>10, <3>2, <4>1
    <3>3. CASE g # new /\ h # new
      <4>1. g \in groups /\ h \in groups
        BY <2>7, <3>3
      <4> QED BY <2>5, <2>11, <4>1
    <3> QED BY <3>1, <3>2, <3>3
  <2>12. UNION next = {i \in 1 .. n : txs[i].kind \notin SerialKinds}
    <3>1. ASSUME NEW i PROVE (\E g \in next : i \in g) <=> (i = n \/ \E g \in groups : i \in g)
      BY <2>6, <2>7
    <3>2. ASSUME NEW i PROVE i \in UNION next <=> (i = n \/ i \in UNION groups)
      BY <3>1
    <3>3. ASSUME NEW i PROVE i \in UNION groups <=> i \in 1 .. (n - 1) /\ txs[i].kind \notin SerialKinds
      BY <2>5
    <3>4. ASSUME NEW i
          PROVE  i \in UNION next <=> i \in {j \in 1 .. n : txs[j].kind \notin SerialKinds}
      BY <1>1, <1>3, <3>2, <3>3
    <3> QED BY <3>4
  <2>13. Grouping(next, txs, n)
    BY <2>9, <2>11, <2>12 DEF Grouping, Apart
  <2> QED BY <2>4, <2>13
<1> QED BY <1>2, <1>3

\* partition_transactions yields such partitions.
LEMMA PartitionsAre ==
  ASSUME NEW txs \in Seq(Txs)
  PROVE  Grouping(Partitions(txs), txs, Len(txs))
<1>0. PICK q : q = [i \in DOMAIN txs |-> i]
  OBVIOUS
<1> DEFINE N == Len(txs)
           X == SUBSET SUBSET (1 .. N)
           step == [z \in X \X (1 .. N) |-> PartitionStep(z[1], txs, q[z[2]])]
           a(h, s) == IF s = {} THEN {} ELSE PartitionStep(h[s \ {Max(s)}], txs, q[Max(s)])
           P(h) == h = [s \in SUBSET (1 .. N) |-> a(h, s)]
<1>1. N \in Nat /\ DOMAIN q = 1 .. N /\ \A i \in 1 .. N : q[i] = i
  BY <1>0
<1>2. \A g \in X : \A i \in 1 .. N : PartitionStep(g, txs, q[i]) \in X
  <2> SUFFICES ASSUME NEW g \in X, NEW i \in 1 .. N PROVE PartitionStep(g, txs, i) \in X
    BY <1>1
  <2>1. PICK shared : shared \subseteq g /\ Joined(g, txs, i) = (g \ shared) \cup {(UNION shared) \cup {i}}
    BY DEF Joined
  <2>2. (UNION shared) \cup {i} \subseteq 1 .. N
    <3> HIDE DEF N
    <3>1. \A x \in shared : x \subseteq 1 .. N
      BY <2>1
    <3>2. UNION shared \subseteq 1 .. N
      BY <3>1, Zenon
    <3> QED BY <3>2
  <2>3. PICK new : new = (UNION shared) \cup {i}
    OBVIOUS
  <2>4. Joined(g, txs, i) \in X
    <3> HIDE DEF N
    <3>1. g \subseteq SUBSET (1 .. N) /\ new \in SUBSET (1 .. N)
      BY <2>2, <2>3
    <3>2. Joined(g, txs, i) = (g \ shared) \cup {new}
      BY <2>1, <2>3
    <3> QED BY <3>1, <3>2
  <2> QED BY <2>4 DEF PartitionStep
<1>3. Partitions(txs) = (CHOOSE h : P(h))[1 .. N]
  <2> HIDE DEF N
  <2>1. Partitions(txs) = FoldLeft(LAMBDA g, i : IF txs[i].kind \in SerialKinds THEN g
                                                 ELSE Joined(g, txs, i), {}, q)
    BY <1>0, Zenon DEF Partitions, FoldLeftDomain
  <2> QED BY <1>1, <2>1, Zenon DEF FoldLeft, MapThenFoldSet, PartitionStep
<1>4. step \in [X \X (1 .. N) -> X]
  <2> HIDE DEF X
  <2> QED BY <1>2
<1>5. {} \in X
  OBVIOUS
<1>6. \E h : P(h)
  <2>1. PICK h : IsLeftFold(h, step, {}, N) /\ \A s \in SUBSET (1 .. N) : h[s] \in X
    <3> HIDE DEF step, X, N
    <3> QED BY <1>1, <1>4, <1>5, LeftFoldTyped
  <2> DEFINE b(s) == IF s = {} THEN {} ELSE step[<<h[s \ {Max(s)}], Max(s)>>]
  <2>2. ASSUME NEW s \in SUBSET (1 .. N) PROVE b(s) = a(h, s)
    <3>1. CASE s = {}
      BY <3>1
    <3>2. CASE s # {}
      <4>1. Max(s) \in 1 .. N /\ s \ {Max(s)} \in SUBSET (1 .. N)
        BY <1>1, <3>2, LastPosition
      <4>2. h[s \ {Max(s)}] \in X
        BY <2>1, <4>1
      <4> HIDE DEF X
      <4> QED BY <3>2, <4>1, <4>2
    <3> QED BY <3>1, <3>2
  <2>3. h = [s \in SUBSET (1 .. N) |-> b(s)]
    BY <2>1, Zenon DEF IsLeftFold
  <2> HIDE DEF a, b, N
  <2>4. h = [s \in SUBSET (1 .. N) |-> a(h, s)]
    BY <2>2, <2>3
  <2> QED BY <2>4
<1>7. PICK h : P(h) /\ Partitions(txs) = h[1 .. N]
  <2>1. P(CHOOSE h : P(h))
    <3> HIDE DEF P
    <3> QED BY <1>6, Zenon
  <2> QED BY <1>3, <2>1, Zenon
<1>8. h[{}] = {} /\ \A n \in 1 .. N : h[1 .. n] = PartitionStep(h[1 .. (n - 1)], txs, n)
  <2>1. \A s \in SUBSET (1 .. N) : h[s] = a(h, s)
    <3> HIDE DEF a
    <3> QED BY <1>7
  <2>2. h[{}] = {}
    BY <2>1
  <2>3. ASSUME NEW n \in 1 .. N PROVE h[1 .. n] = PartitionStep(h[1 .. (n - 1)], txs, n)
    <3> HIDE DEF N
    <3>1. /\ 1 .. n \in SUBSET (1 .. N) /\ 1 .. n # {} /\ Max(1 .. n) = n
          /\ (1 .. n) \ {n} = 1 .. (n - 1)
      BY <1>1, PrefixOf
    <3>2. q[n] = n
      BY <1>1
    <3>3. h[1 .. n] = a(h, 1 .. n)
      BY <2>1, <3>1
    <3> QED BY <3>1, <3>2, <3>3, Zenon
  <2> QED BY <2>2, <2>3
<1> DEFINE T == {n \in 0 .. N : Grouping(h[1 .. n], txs, n)}
<1> HIDE DEF N
<1>9. 0 \in T
  <2>1. 1 .. 0 = {} /\ 0 \in 0 .. N
    BY <1>1
  <2>2. h[1 .. 0] = {}
    BY <1>8, <2>1
  <2> QED BY <2>1, <2>2 DEF Grouping
<1>10. ASSUME NEW n \in 0 .. (N - 1), n \in T PROVE n + 1 \in T
  <2>1. PICK m \in 1 .. N : m = n + 1 /\ m - 1 = n /\ m \in 0 .. N /\ m \in Nat /\ m # 0
    BY <1>1
  <2>2. h[1 .. m] = PartitionStep(h[1 .. n], txs, m)
    BY <1>8, <2>1
  <2>3. Grouping(h[1 .. n], txs, m - 1)
    BY <1>10, <2>1
  <2> QED BY <2>1, <2>2, <2>3, JoinedGroups
<1>11. N \in T
  <2> HIDE DEF T
  <2>1. \A n \in 0 .. N : n \in T
    BY <1>1, <1>9, <1>10, UpTo
  <2> QED BY <1>1, <2>1
<1> QED BY <1>7, <1>11 DEF N

-----------------------------------------------------------------------------
(* The partitions of a block, by the index of their first transaction.     *)

\* Every transaction of the parallel stage has one partition, and the
\* partitions share no key.
Split(gs, txs) ==
  /\ DOMAIN gs \subseteq 1 .. Len(txs)
  /\ \A p \in DOMAIN gs : p \in gs[p] /\ gs[p] \subseteq 1 .. Len(txs)
  /\ \A p \in DOMAIN gs : \A i \in gs[p] : txs[i].kind \notin SerialKinds
  /\ \A i \in 1 .. Len(txs) : txs[i].kind \notin SerialKinds => \E p \in DOMAIN gs : i \in gs[p]
  /\ \A p, q \in DOMAIN gs : p # q => /\ gs[p] \cap gs[q] = {}
                                      /\ \A i \in gs[p], j \in gs[q] : Apart(txs, i, j)

\* The partitions that a block starts with.
GroupOf(groups, p) == CHOOSE g \in groups : p \in g
Firsts(groups) == {Min(g) : g \in groups}
ByFirst(groups) == [p \in Firsts(groups) |-> GroupOf(groups, p)]

\* The partitions, each named by its first transaction, split the parallel transactions
\* of the block.
LEMMA SplitOf ==
  ASSUME NEW txs \in Seq(Txs), NEW groups, Grouping(groups, txs, Len(txs)),
         NEW gs, gs = ByFirst(groups)
  PROVE  /\ Split(gs, txs) /\ gs \in [DOMAIN gs -> groups] /\ IsFiniteSet(DOMAIN gs)
         /\ UNION groups = UNION {gs[p] : p \in DOMAIN gs}
         /\ Cardinality(DOMAIN gs) = Cardinality(groups)
<1>0. PICK N \in Nat : N = Len(txs)
  OBVIOUS
<1>1. /\ \A g \in groups : g \subseteq 1 .. N /\ g # {}
      /\ \A g, h \in groups : g # h => g \cap h = {}
      /\ \A g, h \in groups : g # h => \A i \in g, j \in h : Apart(txs, i, j)
      /\ UNION groups = {i \in 1 .. N : txs[i].kind \notin SerialKinds}
  BY <1>0 DEF Grouping, Apart
<1>2. ASSUME NEW g \in groups PROVE Min(g) \in g /\ Min(g) \in 1 .. N
  <2>1. g \subseteq 1 .. N /\ g # {}
    BY <1>1
  <2>2. g \in SUBSET Nat
    BY <1>0, <2>1
  <2> QED BY <2>1, <2>2, MinIsLeast
<1>3. /\ DOMAIN gs = {Min(g) : g \in groups}
      /\ \A p \in DOMAIN gs : gs[p] = CHOOSE g \in groups : p \in g
      /\ gs = [p \in DOMAIN gs |-> gs[p]]
  BY DEF ByFirst, GroupOf, Firsts
<1>4. ASSUME NEW g \in groups PROVE Min(g) \in DOMAIN gs /\ gs[Min(g)] = g
  <2>1. PICK p : p = Min(g)
    OBVIOUS
  <2>2. p \in g /\ p \in DOMAIN gs
    BY <1>2, <1>3, <2>1
  <2>3. gs[p] = CHOOSE h \in groups : p \in h
    BY <1>3, <2>2
  <2>4. \A h \in groups : p \in h => h = g
    BY <1>1, <2>2
  <2>5. gs[p] \in groups /\ p \in gs[p]
    BY <2>2, <2>3
  <2> QED BY <2>1, <2>2, <2>4, <2>5
<1>5. ASSUME NEW p \in DOMAIN gs PROVE gs[p] \in groups /\ p = Min(gs[p]) /\ p \in gs[p] /\ p \in 1 .. N
  <2>1. PICK g \in groups : p = Min(g)
    BY <1>3
  <2> QED BY <1>2, <1>4, <2>1
<1>6. \A p, q \in DOMAIN gs : p # q => gs[p] # gs[q]
  BY <1>5
<1>7. Split(gs, txs)
  <2>1. DOMAIN gs \subseteq 1 .. N /\ \A p \in DOMAIN gs : p \in gs[p] /\ gs[p] \subseteq 1 .. N
    BY <1>1, <1>5
  <2>2. ASSUME NEW p \in DOMAIN gs, NEW i \in gs[p] PROVE txs[i].kind \notin SerialKinds
    <3>1. i \in UNION groups
      BY <1>5
    <3> QED BY <1>1, <3>1
  <2>3. ASSUME NEW i \in 1 .. N, txs[i].kind \notin SerialKinds PROVE \E p \in DOMAIN gs : i \in gs[p]
    <3>1. i \in UNION groups
      BY <1>1, <2>3
    <3>2. PICK g \in groups : i \in g
      BY <3>1
    <3> QED BY <1>4, <3>2
  <2>4. \A p, q \in DOMAIN gs : p # q => gs[p] \cap gs[q] = {}
    BY <1>1, <1>5, <1>6
  <2>5. \A p, q \in DOMAIN gs : p # q => \A i \in gs[p], j \in gs[q] : Apart(txs, i, j)
    BY <1>1, <1>5, <1>6
  <2> QED BY <1>0, <2>1, <2>2, <2>3, <2>4, <2>5 DEF Split
<1>8. gs \in [DOMAIN gs -> groups]
  <2>1. gs = [p \in DOMAIN gs |-> gs[p]]
    BY <1>3
  <2> QED BY <1>5, <2>1
<1>9. UNION groups = UNION {gs[p] : p \in DOMAIN gs}
  <2>1. ASSUME NEW i, NEW g \in groups, i \in g PROVE i \in UNION {gs[p] : p \in DOMAIN gs}
    BY <1>4, <2>1
  <2>2. ASSUME NEW i, NEW p \in DOMAIN gs, i \in gs[p] PROVE i \in UNION groups
    BY <1>5, <2>2
  <2>3. \A i : i \in UNION groups <=> i \in UNION {gs[p] : p \in DOMAIN gs}
    <3>1. ASSUME NEW i \in UNION groups PROVE i \in UNION {gs[p] : p \in DOMAIN gs}
      <4>1. PICK g \in groups : i \in g
        OBVIOUS
      <4> QED BY <2>1, <4>1
    <3>2. ASSUME NEW i \in UNION {gs[p] : p \in DOMAIN gs} PROVE i \in UNION groups
      <4>1. PICK p \in DOMAIN gs : i \in gs[p]
        OBVIOUS
      <4> QED BY <2>2, <4>1
    <3> QED BY <3>1, <3>2
  <2> QED BY <2>3
<1>10. IsFiniteSet(DOMAIN gs)
  <2>1. IsFiniteSet(1 .. N) /\ DOMAIN gs \in SUBSET (1 .. N)
    BY <1>0, <1>5, FS_Interval
  <2> QED BY <2>1, FS_Subset
<1>11. gs \in Bijection(DOMAIN gs, groups)
  <2>1. \A g \in groups : \E p \in DOMAIN gs : gs[p] = g
    BY <1>4
  <2> QED BY <1>6, <1>8, <2>1 DEF Bijection, Injection, Surjection, IsInjective
<1>12. Cardinality(DOMAIN gs) = Cardinality(groups)
  <2>1. ExistsBijection(DOMAIN gs, groups)
    BY <1>11 DEF ExistsBijection
  <2> QED BY <1>10, <2>1, FS_Bijection
<1> QED BY <1>7, <1>8, <1>9, <1>10, <1>12

-----------------------------------------------------------------------------
(* The reference execution, transaction by transaction.                    *)

Home(gs, i) == CHOOSE p \in DOMAIN gs : i \in gs[p]
Started(d, gs) ==
  [state |-> d, ok |-> <<>>,
   budget |-> [p \in DOMAIN gs |-> PerPartitionGas(Cardinality(DOMAIN gs))]]
Advanced(acc, txs, gs, i) ==
  LET r == Turn(acc.state, txs[i], acc.budget[Home(gs, i)])
  IN IF txs[i].kind \in SerialKinds THEN acc
     ELSE [state |-> r.overlay, budget |-> [acc.budget EXCEPT ![Home(gs, i)] = r.budget],
           ok |-> With(acc.ok, i, r.ok)]
Accs(N, D) == [state : Dbs, ok : Maps(1 .. N, BOOLEAN), budget : [D -> Nat]]

\* The partition of a transaction.
LEMMA HomeIs ==
  ASSUME NEW txs, NEW gs, Split(gs, txs)
  PROVE  /\ \A i \in 1 .. Len(txs) : txs[i].kind \notin SerialKinds =>
              Home(gs, i) \in DOMAIN gs /\ i \in gs[Home(gs, i)]
         /\ \A p \in DOMAIN gs : \A i \in gs[p] : Home(gs, i) = p
<1>1. ASSUME NEW i, NEW p \in DOMAIN gs, i \in gs[p] PROVE Home(gs, i) \in DOMAIN gs /\ i \in gs[Home(gs, i)]
  BY <1>1 DEF Home
<1>2. \A i \in 1 .. Len(txs) : txs[i].kind \notin SerialKinds => \E p \in DOMAIN gs : i \in gs[p]
  BY DEF Split
<1>3. \A p, q \in DOMAIN gs : p # q => gs[p] \cap gs[q] = {}
  BY DEF Split
<1>4. ASSUME NEW p \in DOMAIN gs, NEW i \in gs[p] PROVE Home(gs, i) = p
  BY <1>1, <1>3
<1> QED BY <1>1, <1>2, <1>4

\* The budget of a partition.
LEMMA BudgetType ==
  ASSUME NEW n \in Nat
  PROVE  /\ PerPartitionGas(n) \in Nat
         /\ n * PerPartitionGas(n) <= block_gas_limit /\ block_gas_limit \in Nat
<1>1. block_gas_limit \in Nat
  BY ExecutorAssumption
<1>2. CASE n = 0
  <2>1. PerPartitionGas(0) = block_gas_limit \div 1
    BY DEF PerPartitionGas
  <2> QED BY <1>1, <1>2, <2>1
<1>3. CASE n # 0
  <2>1. PerPartitionGas(n) = block_gas_limit \div n
    BY <1>3 DEF PerPartitionGas
  <2>2. n \in Nat \ {0} /\ block_gas_limit \div n \in Nat
    BY <1>1, <1>3
  <2>3. block_gas_limit = n * (block_gas_limit \div n) + (block_gas_limit % n) /\ block_gas_limit % n \in Nat
    BY <1>1, <1>3
  <2>4. n * (block_gas_limit \div n) \in Nat
    BY <2>2
  <2> QED BY <1>1, <2>1, <2>2, <2>3, <2>4
<1> QED BY <1>2, <1>3

\* One transaction of the reference execution.
LEMMA AdvancedIs ==
  ASSUME NEW txs \in Seq(Txs), NEW gs, Split(gs, txs), NEW i \in 1 .. Len(txs),
         NEW acc \in Accs(Len(txs), DOMAIN gs)
  PROVE  LET h == Home(gs, i)
             r == Turn(acc.state, txs[i], acc.budget[h])
             e == Advanced(acc, txs, gs, i)
         IN /\ txs[i].kind \in SerialKinds => e = acc
            /\ txs[i].kind \notin SerialKinds =>
                 /\ Parallel(txs[i]) /\ h \in DOMAIN gs /\ acc.budget[h] \in Nat
                 /\ e.state = r.overlay /\ e.ok = With(acc.ok, i, r.ok)
                 /\ e.budget[h] = r.budget
                 /\ \A p \in DOMAIN gs : p # h => e.budget[p] = acc.budget[p]
            /\ e \in Accs(Len(txs), DOMAIN gs)
<1> DEFINE h == Home(gs, i)
           r == Turn(acc.state, txs[i], acc.budget[h])
           e == Advanced(acc, txs, gs, i)
<1>1. CASE txs[i].kind \in SerialKinds
  <2>1. e = acc
    BY <1>1 DEF Advanced
  <2> QED BY <1>1, <2>1
<1>2. CASE txs[i].kind \notin SerialKinds
  <2>1. h \in DOMAIN gs
    BY <1>2, HomeIs
  <2>2. txs[i] \in Txs
    OBVIOUS
  <2>3. Parallel(txs[i])
    BY <1>2, <2>2 DEF Parallel
  <2>4. /\ acc.state \in Dbs /\ acc.budget \in [DOMAIN gs -> Nat]
        /\ acc.ok \in Maps(1 .. Len(txs), BOOLEAN)
    BY DEF Accs
  <2>5. acc.budget[h] \in Nat
    BY <2>1, <2>4
  <2>6. r.overlay \in Dbs /\ r.budget \in Nat /\ r.ok \in BOOLEAN
    BY <2>3, <2>4, <2>5, TurnFacts DEF TurnDone
  <2> HIDE DEF h, r
  <2>7. e = [state |-> r.overlay, budget |-> [acc.budget EXCEPT ![h] = r.budget],
             ok |-> With(acc.ok, i, r.ok)]
    BY <1>2, Zenon DEF Advanced, h, r
  <2> HIDE DEF e
  <2>8. e.state = r.overlay /\ e.ok = With(acc.ok, i, r.ok) /\ e.budget = [acc.budget EXCEPT ![h] = r.budget]
    BY <2>7
  <2>9. e.budget \in [DOMAIN gs -> Nat] /\ e.budget[h] = r.budget
        /\ \A p \in DOMAIN gs : p # h => e.budget[p] = acc.budget[p]
    BY <2>1, <2>4, <2>6, <2>8
  <2>10. With(acc.ok, i, r.ok) \in Maps(1 .. Len(txs), BOOLEAN)
    BY <2>4, <2>6, MapFacts
  <2>11. e \in Accs(Len(txs), DOMAIN gs)
    BY <2>6, <2>7, <2>8, <2>9, <2>10 DEF Accs
  <2> QED BY <1>2, <2>1, <2>3, <2>5, <2>8, <2>9, <2>11 DEF h, r, e
<1> QED BY <1>1, <1>2

\* The start of the reference execution.
LEMMA StartedType ==
  ASSUME NEW d \in Dbs, NEW gs, IsFiniteSet(DOMAIN gs), NEW N
  PROVE  Started(d, gs) \in Accs(N, DOMAIN gs)
<1>1. PICK c : c = PerPartitionGas(Cardinality(DOMAIN gs))
  OBVIOUS
<1>2. c \in Nat
  BY <1>1, FS_CardinalityType, BudgetType
<1>3. <<>> \in Maps(1 .. N, BOOLEAN)
  <2>1. PICK e : e = [x \in {} |-> TRUE]
    OBVIOUS
  <2>2. e \in [{} -> BOOLEAN] /\ {} \in SUBSET (1 .. N)
    BY <2>1
  <2>3. e \in Maps(1 .. N, BOOLEAN)
    BY <2>2 DEF Maps
  <2>4. e = <<>>
    BY <2>1
  <2> QED BY <2>3, <2>4
<1>4. PICK b : b = [p \in DOMAIN gs |-> c]
  OBVIOUS
<1>5. b \in [DOMAIN gs -> Nat]
  BY <1>2, <1>4
<1>6. Started(d, gs) = [state |-> d, ok |-> <<>>, budget |-> b]
  BY <1>1, <1>4 DEF Started
<1> QED BY <1>3, <1>5, <1>6 DEF Accs

\* The states after each transaction of the block.
IsRun(G, txs, d, gs) ==
  /\ G \in [0 .. Len(txs) -> Accs(Len(txs), DOMAIN gs)] /\ G[0] = Started(d, gs)
  /\ \A n \in 1 .. Len(txs) : G[n] = Advanced(G[n - 1], txs, gs, n)

\* The reference execution is the end of a run, a function of the number of
\* transactions executed.
LEMMA RunExists ==
  ASSUME NEW txs \in Seq(Txs), NEW d \in Dbs, NEW gs, Split(gs, txs), IsFiniteSet(DOMAIN gs)
  PROVE  \E G : IsRun(G, txs, d, gs) /\ Sequentially(txs, d, gs) = G[Len(txs)]
<1>0. PICK q : q = [i \in DOMAIN txs |-> i]
  OBVIOUS
<1> DEFINE N == Len(txs)
           X == Accs(N, DOMAIN gs)
           start == Started(d, gs)
           step == [z \in X \X (1 .. N) |-> Advanced(z[1], txs, gs, q[z[2]])]
           a(h, s) == IF s = {} THEN start ELSE Advanced(h[s \ {Max(s)}], txs, gs, q[Max(s)])
           P(h) == h = [s \in SUBSET (1 .. N) |-> a(h, s)]
<1>1. N \in Nat /\ DOMAIN q = 1 .. N /\ \A i \in 1 .. N : q[i] = i
  BY <1>0
<1>2. ASSUME NEW c \in X, NEW i \in 1 .. N PROVE Advanced(c, txs, gs, q[i]) \in X
  BY <1>1, AdvancedIs
<1>3. Sequentially(txs, d, gs) = (CHOOSE h : P(h))[1 .. N]
  <2> HIDE DEF N
  <2>1. Sequentially(txs, d, gs) = FoldLeft(LAMBDA acc, i : Advanced(acc, txs, gs, i), start, q)
    BY <1>0, Zenon DEF Sequentially, FoldLeftDomain, Advanced, Home, Started
  <2> QED BY <1>1, <2>1, Zenon DEF FoldLeft, MapThenFoldSet
<1>4. step \in [X \X (1 .. N) -> X]
  <2> HIDE DEF X
  <2> QED BY <1>2
<1>5. start \in X
  BY StartedType
<1>6. \E h : P(h)
  <2>1. PICK h : IsLeftFold(h, step, start, N) /\ \A s \in SUBSET (1 .. N) : h[s] \in X
    <3> HIDE DEF step, X, N, start
    <3> QED BY <1>1, <1>4, <1>5, LeftFoldTyped
  <2> DEFINE b(s) == IF s = {} THEN start ELSE step[<<h[s \ {Max(s)}], Max(s)>>]
  <2>2. ASSUME NEW s \in SUBSET (1 .. N) PROVE b(s) = a(h, s)
    <3>1. CASE s = {}
      BY <3>1
    <3>2. CASE s # {}
      <4>1. Max(s) \in 1 .. N /\ s \ {Max(s)} \in SUBSET (1 .. N)
        BY <1>1, <3>2, LastPosition
      <4>2. h[s \ {Max(s)}] \in X
        BY <2>1, <4>1
      <4> HIDE DEF X, start
      <4> QED BY <3>2, <4>1, <4>2
    <3> QED BY <3>1, <3>2
  <2>3. h = [s \in SUBSET (1 .. N) |-> b(s)]
    BY <2>1, Zenon DEF IsLeftFold
  <2> HIDE DEF a, b, N
  <2>4. h = [s \in SUBSET (1 .. N) |-> a(h, s)]
    BY <2>2, <2>3
  <2> QED BY <2>4
<1>7. PICK h : P(h) /\ Sequentially(txs, d, gs) = h[1 .. N]
  <2>1. P(CHOOSE h : P(h))
    <3> HIDE DEF P
    <3> QED BY <1>6, Zenon
  <2> QED BY <1>3, <2>1, Zenon
<1> DEFINE G == [n \in 0 .. N |-> h[1 .. n]]
<1> HIDE DEF start
<1>8. h[{}] = start /\ \A n \in 1 .. N : h[1 .. n] = Advanced(h[1 .. (n - 1)], txs, gs, n)
  <2>1. \A s \in SUBSET (1 .. N) : h[s] = a(h, s)
    <3> HIDE DEF a
    <3> QED BY <1>7
  <2>2. h[{}] = start
    BY <2>1
  <2>3. ASSUME NEW n \in 1 .. N PROVE h[1 .. n] = Advanced(h[1 .. (n - 1)], txs, gs, n)
    <3> HIDE DEF N
    <3>1. /\ 1 .. n \in SUBSET (1 .. N) /\ 1 .. n # {} /\ Max(1 .. n) = n
          /\ (1 .. n) \ {n} = 1 .. (n - 1)
      BY <1>1, PrefixOf
    <3>2. q[n] = n
      BY <1>1
    <3>3. h[1 .. n] = a(h, 1 .. n)
      BY <2>1, <3>1
    <3> QED BY <3>1, <3>2, <3>3, Zenon
  <2> QED BY <2>2, <2>3
<1> HIDE DEF X, N
<1>9. G[0] = start /\ \A n \in 1 .. N : G[n] = Advanced(G[n - 1], txs, gs, n)
  <2>1. 1 .. 0 = {} /\ 0 \in 0 .. N
    BY <1>1
  <2>2. G[0] = start
    BY <1>8, <2>1
  <2>3. ASSUME NEW n \in 1 .. N PROVE G[n] = Advanced(G[n - 1], txs, gs, n)
    <3>1. PICK m : m = n - 1
      OBVIOUS
    <3>2. m \in 0 .. N /\ n \in 0 .. N
      BY <1>1, <3>1
    <3>3. h[1 .. n] = Advanced(h[1 .. m], txs, gs, n)
      BY <1>8, <3>1
    <3> QED BY <3>1, <3>2, <3>3
  <2> QED BY <2>2, <2>3
<1>10. G \in [0 .. N -> X]
  <2>1. G = [n \in 0 .. N |-> G[n]]
    OBVIOUS
  <2> HIDE DEF G
  <2>2. ASSUME NEW n \in 1 .. N, G[n - 1] \in X PROVE G[n] \in X
    <3>1. q[n] = n
      BY <1>1
    <3>2. Advanced(G[n - 1], txs, gs, n) \in X
      BY <1>2, <2>2, <3>1
    <3> QED BY <1>9, <3>2
  <2> QED BY <1>1, <1>5, <1>9, <2>1, <2>2, RunTyped
<1>11. Sequentially(txs, d, gs) = G[N]
  <2>1. N \in 0 .. N
    BY <1>1
  <2> QED BY <1>7, <2>1
<1> HIDE DEF G
<1>12. IsRun(G, txs, d, gs)
  BY <1>9, <1>10 DEF IsRun, N, X, start
<1> QED BY <1>11, <1>12 DEF N

\* One step of the run.
StepDone(c, e, txs, gs, n) ==
  LET h == Home(gs, n)
      r == Turn(c.state, txs[n], c.budget[h])
  IN /\ Parallel(txs[n]) /\ h \in DOMAIN gs /\ n \in gs[h] /\ c.budget[h] \in Nat
     /\ e.state = r.overlay /\ e.ok = With(c.ok, n, r.ok) /\ e.budget[h] = r.budget
     /\ \A p \in DOMAIN gs : p # h => e.budget[p] = c.budget[p]

\* One step of a run is one turn on the whole state.
LEMMA RunStep ==
  ASSUME NEW txs \in Seq(Txs), NEW d \in Dbs, NEW gs, Split(gs, txs), NEW G, IsRun(G, txs, d, gs),
         NEW n \in 1 .. Len(txs)
  PROVE  /\ n - 1 \in 0 .. Len(txs) /\ n \in 0 .. Len(txs)
         /\ G[n] \in Accs(Len(txs), DOMAIN gs) /\ G[n - 1] \in Accs(Len(txs), DOMAIN gs)
         /\ txs[n].kind \in SerialKinds => G[n] = G[n - 1]
         /\ txs[n].kind \notin SerialKinds => StepDone(G[n - 1], G[n], txs, gs, n)
<1>1. n - 1 \in 0 .. Len(txs) /\ n \in 0 .. Len(txs)
  OBVIOUS
<1>2. G[n] \in Accs(Len(txs), DOMAIN gs) /\ G[n - 1] \in Accs(Len(txs), DOMAIN gs)
  BY <1>1 DEF IsRun
<1>3. G[n] = Advanced(G[n - 1], txs, gs, n)
  BY DEF IsRun
<1>4. txs[n].kind \in SerialKinds => G[n] = G[n - 1]
  BY <1>2, <1>3, AdvancedIs
<1>5. ASSUME txs[n].kind \notin SerialKinds PROVE StepDone(G[n - 1], G[n], txs, gs, n)
  <2>1. n \in gs[Home(gs, n)]
    BY <1>5, HomeIs
  <2> QED BY <1>2, <1>3, <1>5, <2>1, AdvancedIs DEF StepDone
<1> QED BY <1>1, <1>2, <1>4, <1>5

\* What holds after every transaction of the run.
RunDone(d, e, txs, n) ==
  /\ Supply(e.state) <= Supply(d) /\ e.state \in Dbs /\ e.state.stakes = d.stakes
  /\ DOMAIN d.accounts \subseteq DOMAIN e.state.accounts
  /\ DOMAIN d.objects \subseteq DOMAIN e.state.objects
  /\ DOMAIN d.ghosts \subseteq DOMAIN e.state.ghosts
  /\ DOMAIN e.ok = {i \in 1 .. n : txs[i].kind \notin SerialKinds}
  /\ \A i \in DOMAIN e.ok : e.ok[i] /\ txs[i].kind \in OverlayNonces =>
       txs[i].nonce < Account(e.state, txs[i].from).nonce
  /\ \A i, j \in DOMAIN e.ok :
       e.ok[i] /\ e.ok[j] /\ i # j /\ txs[i].kind \in OverlayNonces /\ txs[j].kind \in OverlayNonces
         => <<txs[i].from, txs[i].nonce>> # <<txs[j].from, txs[j].nonce>>

\* A transaction of the parallel stage keeps it.
LEMMA RunDoneStep ==
  ASSUME NEW txs \in Seq(Txs), NEW d \in Dbs, NEW gs, NEW n \in 1 .. Len(txs), NEW D,
         NEW c \in Accs(Len(txs), D), NEW e \in Accs(Len(txs), D),
         StepDone(c, e, txs, gs, n), RunDone(d, c, txs, n - 1)
  PROVE  RunDone(d, e, txs, n)
<1>1. PICK b \in Nat : /\ Parallel(txs[n]) /\ e.state = Turn(c.state, txs[n], b).overlay
                       /\ e.ok = With(c.ok, n, Turn(c.state, txs[n], b).ok)
  BY DEF StepDone
<1>2. PICK r : r = Turn(c.state, txs[n], b)
  OBVIOUS
<1>3. c.state \in Dbs
  BY DEF RunDone
<1>4. TurnDone(c.state, txs[n], b, r)
  BY <1>1, <1>2, <1>3, TurnFacts
<1>5. e.state = r.overlay /\ e.ok = With(c.ok, n, r.ok) /\ txs[n] \in Txs /\ txs[n].kind \notin SerialKinds
  BY <1>1, <1>2 DEF Parallel
<1>6. e.state \in Dbs /\ e.state.stakes = d.stakes
  BY <1>4, <1>5 DEF TurnDone, RunDone
<1>7. Supply(e.state) <= Supply(d)
  <2>1. Supply(c.state) \in Int /\ Supply(e.state) \in Int /\ Supply(d) \in Int
    BY <1>3, <1>6, SupplyNat
  <2>2. Supply(e.state) <= Supply(c.state)
    BY <1>1, <1>3, TurnSupply
  <2>3. Supply(c.state) <= Supply(d)
    BY DEF RunDone
  <2> QED BY <2>1, <2>2, <2>3
<1>8. /\ DOMAIN d.accounts \subseteq DOMAIN e.state.accounts
      /\ DOMAIN d.objects \subseteq DOMAIN e.state.objects
      /\ DOMAIN d.ghosts \subseteq DOMAIN e.state.ghosts
  BY <1>4, <1>5 DEF TurnDone, RunDone
<1>9. DOMAIN c.ok = {i \in 1 .. (n - 1) : txs[i].kind \notin SerialKinds}
  BY DEF RunDone
<1>10. n \notin DOMAIN c.ok /\ n \in 1 .. n /\ \A i : i \in 1 .. n <=> (i = n \/ i \in 1 .. (n - 1))
  BY <1>9
<1>11. /\ DOMAIN e.ok = DOMAIN c.ok \cup {n} /\ e.ok[n] = r.ok
       /\ \A i \in DOMAIN c.ok : e.ok[i] = c.ok[i]
  <2>1. PICK f : f = c.ok
    OBVIOUS
  <2>2. PICK v : v = r.ok
    OBVIOUS
  <2>3. e.ok = With(f, n, v) /\ n \notin DOMAIN f
    BY <1>5, <1>10, <2>1, <2>2
  <2>4. PICK m : m = n
    OBVIOUS
  <2>5. e.ok = With(f, m, v) /\ m \notin DOMAIN f
    BY <2>3, <2>4, Zenon
  <2>6. DOMAIN e.ok = DOMAIN f \cup {m} /\ e.ok[m] = v /\ \A i \in DOMAIN f : e.ok[i] = f[i]
    BY <2>5 DEF With
  <2> QED BY <2>1, <2>2, <2>4, <2>6, Zenon
<1>12. DOMAIN e.ok = {i \in 1 .. n : txs[i].kind \notin SerialKinds}
  BY <1>5, <1>9, <1>10, <1>11
<1> DEFINE Mark(s, i) == Account(s, txs[i].from).nonce
<1>13. \A i \in DOMAIN c.ok : Mark(e.state, i) >= Mark(c.state, i)
  BY <1>4, <1>5 DEF TurnDone
<1>14. \A i \in DOMAIN c.ok : Mark(c.state, i) \in Nat /\ Mark(e.state, i) \in Nat /\ txs[i].nonce \in Nat
  <2> SUFFICES ASSUME NEW i \in DOMAIN c.ok
               PROVE  Mark(c.state, i) \in Nat /\ Mark(e.state, i) \in Nat /\ txs[i].nonce \in Nat
    OBVIOUS
  <2>1. c.state.accounts \in Accts /\ e.state.accounts \in Accts
    BY <1>3, <1>6 DEF Dbs
  <2>2. Account(c.state, txs[i].from) \in AccountRecords /\ Account(e.state, txs[i].from) \in AccountRecords
    BY <2>1, AccountType
  <2>3. i \in 1 .. Len(txs)
    BY <1>9
  <2>4. txs[i] \in Txs
    BY <2>3
  <2> QED BY <2>2, <2>4, TxFields DEF AccountRecords
<1>15. ASSUME NEW i \in DOMAIN c.ok, c.ok[i], txs[i].kind \in OverlayNonces
       PROVE  txs[i].nonce < Mark(c.state, i) /\ txs[i].nonce < Mark(e.state, i)
  <2>1. txs[i].nonce < Mark(c.state, i)
    BY <1>15 DEF RunDone
  <2> HIDE DEF Mark
  <2> QED BY <1>13, <1>14, <2>1
<1>16. txs[n].nonce \in Nat
  BY <1>5, TxFields
<1>17. ASSUME r.ok, txs[n].kind \in OverlayNonces
       PROVE  txs[n].nonce < Mark(e.state, n) /\ Mark(c.state, n) = txs[n].nonce
  BY <1>4, <1>5, <1>16, <1>17 DEF TurnDone
<1>18. ASSUME NEW i \in DOMAIN e.ok, e.ok[i], txs[i].kind \in OverlayNonces
       PROVE  txs[i].nonce < Mark(e.state, i)
  <2> HIDE DEF Mark
  <2> QED BY <1>11, <1>15, <1>17, <1>18
<1>19. ASSUME NEW i \in DOMAIN c.ok, c.ok[i], r.ok, txs[i].kind \in OverlayNonces, txs[n].kind \in OverlayNonces,
              txs[i].from = txs[n].from
       PROVE  txs[i].nonce # txs[n].nonce
  <2>1. txs[i].nonce < Mark(c.state, i) /\ txs[i].nonce \in Nat
    BY <1>14, <1>15, <1>19
  <2>2. Mark(c.state, i) = txs[n].nonce
    BY <1>17, <1>19
  <2> QED BY <1>16, <2>1, <2>2
<1>20. ASSUME NEW i \in DOMAIN e.ok, NEW j \in DOMAIN e.ok, e.ok[i], e.ok[j], i # j,
              txs[i].kind \in OverlayNonces, txs[j].kind \in OverlayNonces
       PROVE  <<txs[i].from, txs[i].nonce>> # <<txs[j].from, txs[j].nonce>>
  <2>1. CASE i # n /\ j # n
    <3>1. i \in DOMAIN c.ok /\ j \in DOMAIN c.ok /\ c.ok[i] /\ c.ok[j]
      BY <1>11, <1>20, <2>1
    <3> QED BY <1>20, <3>1 DEF RunDone
  <2>2. CASE i = n
    <3>1. j \in DOMAIN c.ok /\ c.ok[j] /\ r.ok
      BY <1>11, <1>20, <2>2
    <3> QED BY <1>19, <1>20, <2>2, <3>1
  <2>3. CASE j = n
    <3>1. i \in DOMAIN c.ok /\ c.ok[i] /\ r.ok
      BY <1>11, <1>20, <2>3
    <3> QED BY <1>19, <1>20, <2>3, <3>1
  <2> QED BY <2>1, <2>2, <2>3
<1> HIDE DEF Mark
<1> QED BY <1>6, <1>7, <1>8, <1>12, <1>18, <1>20 DEF RunDone, Mark

\* What holds all along a run: the supply does not grow and nonces only grow.
LEMMA RunFacts ==
  ASSUME NEW txs \in Seq(Txs), NEW d \in Dbs, NEW gs, Split(gs, txs), NEW G, IsRun(G, txs, d, gs)
  PROVE  \A n \in 0 .. Len(txs) : RunDone(d, G[n], txs, n)
<1>0. PICK N \in Nat : N = Len(txs)
  OBVIOUS
<1> DEFINE S == {n \in 0 .. N : RunDone(d, G[n], txs, n)}
<1>1. 0 \in S
  <2>1. G[0] = Started(d, gs)
    BY DEF IsRun
  <2>2. G[0].state = d /\ G[0].ok = <<>>
    BY <2>1 DEF Started
  <2>3. DOMAIN G[0].ok = {} /\ 1 .. 0 = {} /\ 0 \in 0 .. N
    BY <2>2
  <2>4. Supply(d) <= Supply(d)
    BY SupplyIs
  <2>5. RunDone(d, G[0], txs, 0)
    BY <2>2, <2>3, <2>4 DEF RunDone
  <2> QED BY <2>3, <2>5
<1>2. ASSUME NEW n \in 0 .. (N - 1), n \in S PROVE n + 1 \in S
  <2>1. PICK m \in 1 .. N : m = n + 1 /\ m - 1 = n /\ m \in 0 .. N
    BY <1>0
  <2>2. /\ G[m] \in Accs(N, DOMAIN gs) /\ G[n] \in Accs(N, DOMAIN gs)
        /\ txs[m].kind \in SerialKinds => G[m] = G[n]
        /\ txs[m].kind \notin SerialKinds => StepDone(G[n], G[m], txs, gs, m)
    BY <1>0, <2>1, RunStep
  <2>3. RunDone(d, G[n], txs, m - 1)
    BY <1>2, <2>1
  <2>4. CASE txs[m].kind \notin SerialKinds
    <3>1. RunDone(d, G[m], txs, m)
      BY <1>0, <2>2, <2>3, <2>4, RunDoneStep
    <3> QED BY <2>1, <3>1
  <2>5. CASE txs[m].kind \in SerialKinds
    <3>1. {i \in 1 .. (m - 1) : txs[i].kind \notin SerialKinds} = {i \in 1 .. m : txs[i].kind \notin SerialKinds}
      BY <2>5
    <3>2. RunDone(d, G[n], txs, m)
      BY <2>3, <3>1 DEF RunDone
    <3> QED BY <2>1, <2>2, <2>5, <3>2
  <2> QED BY <2>4, <2>5
<1> HIDE DEF S
<1>3. \A n \in 0 .. N : n \in S
  BY <1>0, <1>1, <1>2, UpTo
<1> QED BY <1>0, <1>3 DEF S

\* Between two points of the run: what no transaction touches stays, so does
\* the budget of a partition that has no transaction there, and outcomes stay.
LEMMA RunStays ==
  ASSUME NEW txs \in Seq(Txs), NEW d \in Dbs, NEW gs, Split(gs, txs), NEW G, IsRun(G, txs, d, gs),
         NEW m \in 0 .. Len(txs), NEW n \in 0 .. Len(txs), m <= n
  PROVE  /\ \A K : (\A j \in 1 .. Len(txs) : m < j /\ j <= n /\ txs[j].kind \notin SerialKinds
                                               => AccessKeys(txs[j]) \cap K = {})
                     => Populated(G[n].state, K) = Populated(G[m].state, K)
         /\ \A p \in DOMAIN gs : (\A j \in gs[p] : m < j => n < j) => G[n].budget[p] = G[m].budget[p]
         /\ \A i \in DOMAIN G[m].ok : i \in DOMAIN G[n].ok /\ G[n].ok[i] = G[m].ok[i]
<1>0. PICK N \in Nat : N = Len(txs)
  OBVIOUS
<1> DEFINE Free(K, k) == \A j \in 1 .. N : m < j /\ j <= k /\ txs[j].kind \notin SerialKinds
                                             => AccessKeys(txs[j]) \cap K = {}
           Quiet(p, k) == \A j \in gs[p] : m < j => k < j
           A(k) == \A K : Free(K, k) => Populated(G[k].state, K) = Populated(G[m].state, K)
           B(k) == \A p \in DOMAIN gs : Quiet(p, k) => G[k].budget[p] = G[m].budget[p]
           C(k) == \A i \in DOMAIN G[m].ok : i \in DOMAIN G[k].ok /\ G[k].ok[i] = G[m].ok[i]
           S == {k \in 0 .. N : m <= k => A(k) /\ B(k) /\ C(k)}
<1>1. A(m) /\ B(m) /\ C(m)
  OBVIOUS
<1>2. 0 \in S
  <2> HIDE DEF A, B, C
  <2>1. 0 \in 0 .. N /\ (m <= 0 => m = 0)
    BY <1>0
  <2> QED BY <1>1, <2>1
<1>3. ASSUME NEW k \in 0 .. (N - 1), k \in S PROVE k + 1 \in S
  <2>1. PICK l \in 1 .. N : l = k + 1 /\ l - 1 = k /\ l \in 0 .. N /\ k \in 0 .. N
    BY <1>0
  <2>2. /\ G[l] \in Accs(N, DOMAIN gs) /\ G[k] \in Accs(N, DOMAIN gs)
        /\ txs[l].kind \in SerialKinds => G[l] = G[k]
        /\ txs[l].kind \notin SerialKinds => StepDone(G[k], G[l], txs, gs, l)
    BY <1>0, <2>1, RunStep
  <2>3. CASE m <= k
    <3>1. A(k) /\ B(k) /\ C(k)
      <4> HIDE DEF A, B, C
      <4> QED BY <1>3, <2>3
    <3>2. ASSUME NEW K, Free(K, l) PROVE Free(K, k)
      <4> SUFFICES ASSUME NEW j \in 1 .. N, m < j, j <= k, txs[j].kind \notin SerialKinds
                   PROVE  AccessKeys(txs[j]) \cap K = {}
        OBVIOUS
      <4>1. j <= l
        BY <1>0, <2>1
      <4> QED BY <3>2, <4>1
    <3>3. ASSUME NEW p \in DOMAIN gs, Quiet(p, l) PROVE Quiet(p, k)
      <4> SUFFICES ASSUME NEW j \in gs[p], m < j PROVE k < j
        OBVIOUS
      <4>1. j \in 1 .. N /\ l < j
        BY <1>0, <3>3 DEF Split
      <4> QED BY <1>0, <2>1, <4>1
    <3>4. CASE txs[l].kind \in SerialKinds
      <4>1. G[l] = G[k]
        BY <2>2, <3>4
      <4>2. A(l)
        <5> HIDE DEF Free
        <5> QED BY <3>1, <3>2, <4>1
      <4>3. B(l)
        <5> HIDE DEF Quiet
        <5> QED BY <3>1, <3>3, <4>1
      <4>4. C(l)
        BY <3>1, <4>1
      <4> HIDE DEF A, B, C
      <4> QED BY <2>1, <4>2, <4>3, <4>4
    <3>5. CASE txs[l].kind \notin SerialKinds
      <4>1. StepDone(G[k], G[l], txs, gs, l)
        BY <2>2, <3>5
      <4>2. PICK h \in DOMAIN gs :
              /\ Parallel(txs[l]) /\ l \in gs[h] /\ G[k].budget[h] \in Nat
              /\ G[l].state = Turn(G[k].state, txs[l], G[k].budget[h]).overlay
              /\ G[l].ok = With(G[k].ok, l, Turn(G[k].state, txs[l], G[k].budget[h]).ok)
              /\ \A p \in DOMAIN gs : p # h => G[l].budget[p] = G[k].budget[p]
        BY <4>1 DEF StepDone
      <4>3. m < l /\ m \in Nat /\ l \in Nat
        BY <1>0, <2>1, <2>3
      <4>4. A(l)
        <5> SUFFICES ASSUME NEW K, Free(K, l) PROVE Populated(G[l].state, K) = Populated(G[m].state, K)
          OBVIOUS
        <5>1. l <= l
          BY <2>1
        <5>2. AccessKeys(txs[l]) \cap K = {}
          BY <3>5, <4>3, <5>1
        <5>3. Populated(G[k].state, K) = Populated(G[m].state, K)
          <6> HIDE DEF Free
          <6> QED BY <3>1, <3>2
        <5>4. G[k].state \in Dbs
          BY <2>2 DEF Accs
        <5>5. Populated(G[l].state, K) = Populated(G[k].state, K)
          <6> HIDE DEF Free
          <6> QED BY <4>2, <5>2, <5>4, TurnFrame
        <5> QED BY <5>3, <5>5
      <4>5. B(l)
        <5> SUFFICES ASSUME NEW p \in DOMAIN gs, Quiet(p, l) PROVE G[l].budget[p] = G[m].budget[p]
          OBVIOUS
        <5>1. l \notin gs[p]
          BY <4>3
        <5>2. G[k].budget[p] = G[m].budget[p]
          <6> HIDE DEF Quiet
          <6> QED BY <3>1, <3>3
        <5> QED BY <4>2, <5>1, <5>2
      <4>6. C(l)
        <5> SUFFICES ASSUME NEW i \in DOMAIN G[m].ok PROVE i \in DOMAIN G[l].ok /\ G[l].ok[i] = G[m].ok[i]
          OBVIOUS
        <5>1. PICK f : f = G[k].ok
          OBVIOUS
        <5>2. PICK v : G[l].ok = With(f, l, v)
          BY <4>2, <5>1
        <5>3. i \in DOMAIN f /\ f[i] = G[m].ok[i]
          BY <3>1, <5>1
        <5>4. RunDone(d, G[k], txs, k)
          BY <2>1, RunFacts, <1>0
        <5>5. DOMAIN f = {j \in 1 .. k : txs[j].kind \notin SerialKinds}
          BY <5>1, <5>4 DEF RunDone
        <5>6. i # l
          BY <1>0, <2>1, <5>3, <5>5
        <5>7. i \in DOMAIN G[l].ok /\ G[l].ok[i] = f[i]
          BY <5>2, <5>3, <5>6 DEF With
        <5> QED BY <5>3, <5>7
      <4> HIDE DEF A, B, C
      <4> QED BY <2>1, <4>4, <4>5, <4>6
    <3> QED BY <3>4, <3>5
  <2>4. CASE ~(m <= k)
    <3>1. m <= l => m = l
      BY <1>0, <2>1, <2>4
    <3>2. m = l => A(l) /\ B(l) /\ C(l)
      <4> HIDE DEF A, B, C
      <4> QED BY <1>1
    <3> HIDE DEF A, B, C
    <3> QED BY <2>1, <3>1, <3>2
  <2> QED BY <2>3, <2>4
<1> HIDE DEF S
<1>4. \A k \in 0 .. N : k \in S
  BY <1>0, <1>2, <1>3, UpTo
<1>5. n \in S
  BY <1>0, <1>4
<1>6. A(n) /\ B(n) /\ C(n)
  <2> HIDE DEF A, B, C
  <2> QED BY <1>5 DEF S
<1> QED BY <1>0, <1>6

\* While a partition has no transaction, its part of the state stays.
LEMMA RunQuiet ==
  ASSUME NEW txs \in Seq(Txs), NEW d \in Dbs, NEW gs, Split(gs, txs), NEW G, IsRun(G, txs, d, gs),
         NEW m \in 0 .. Len(txs), NEW n \in 0 .. Len(txs), m <= n,
         NEW p \in DOMAIN gs, \A j \in gs[p] : m < j => n < j
  PROVE  /\ Populated(G[n].state, KeysOf(txs, gs[p])) = Populated(G[m].state, KeysOf(txs, gs[p]))
         /\ G[n].budget[p] = G[m].budget[p]
<1>1. PICK K : K = KeysOf(txs, gs[p])
  OBVIOUS
<1>2. ASSUME NEW j \in 1 .. Len(txs), m < j, j <= n, txs[j].kind \notin SerialKinds
      PROVE  AccessKeys(txs[j]) \cap K = {}
  <2>1. j \notin gs[p]
    BY <1>2
  <2>2. PICK q \in DOMAIN gs : j \in gs[q]
    BY <1>2 DEF Split
  <2>3. \A i \in gs[p] : Apart(txs, i, j)
    BY <2>1, <2>2 DEF Split
  <2>4. \A x \in K : \E i \in gs[p] : x \in AccessKeys(txs[i])
    BY <1>1 DEF KeysOf
  <2> QED BY <2>3, <2>4 DEF Apart
<1>3. Populated(G[n].state, K) = Populated(G[m].state, K)
  <2>1. \A L : (\A j \in 1 .. Len(txs) : m < j /\ j <= n /\ txs[j].kind \notin SerialKinds
                                           => AccessKeys(txs[j]) \cap L = {})
                 => Populated(G[n].state, L) = Populated(G[m].state, L)
    BY RunStays
  <2> QED BY <1>2, <2>1
<1>4. G[n].budget[p] = G[m].budget[p]
  BY RunStays
<1> QED BY <1>1, <1>3, <1>4

\* The keys of two partitions are disjoint.
LEMMA KeysApart ==
  ASSUME NEW txs, NEW gs, Split(gs, txs), NEW p \in DOMAIN gs, NEW q \in DOMAIN gs, p # q
  PROVE  KeysOf(txs, gs[p]) \cap KeysOf(txs, gs[q]) = {}
<1>1. \A i \in gs[p], j \in gs[q] : Apart(txs, i, j)
  BY DEF Split
<1>2. ASSUME NEW x, x \in KeysOf(txs, gs[p]), x \in KeysOf(txs, gs[q]) PROVE FALSE
  <2>1. PICK i \in gs[p] : x \in AccessKeys(txs[i])
    BY <1>2 DEF KeysOf
  <2>2. PICK j \in gs[q] : x \in AccessKeys(txs[j])
    BY <1>2 DEF KeysOf
  <2> QED BY <1>1, <2>1, <2>2 DEF Apart
<1> QED BY <1>2

\* Merging the overlays of disjoint keys into a map.
LEMMA MergedIs ==
  ASSUME NEW f, NEW g, g = [x \in DOMAIN g |-> g[x]], DOMAIN f \subseteq DOMAIN g,
         NEW D \in SUBSET Nat, IsFiniteSet(D), NEW o, DOMAIN o = D, NEW K,
         \A p \in D : o[p] = Only(g, K[p]),
         \A p, q \in D : p # q => K[p] \cap K[q] = {},
         \A x \in DOMAIN g : (\A p \in D : x \notin K[p]) => x \in DOMAIN f /\ g[x] = f[x]
  PROVE  Merged(f, o) = g
<1> DEFINE holders(x) == {p \in DOMAIN o : x \in DOMAIN o[p]}
           U == DOMAIN f \cup UNION {DOMAIN o[p] : p \in DOMAIN o}
<1>1. \A p \in D : DOMAIN o[p] = DOMAIN g \cap K[p] /\ \A x \in DOMAIN o[p] : o[p][x] = g[x]
  <2> SUFFICES ASSUME NEW p \in D
               PROVE  DOMAIN o[p] = DOMAIN g \cap K[p] /\ \A x \in DOMAIN o[p] : o[p][x] = g[x]
    OBVIOUS
  <2>1. PICK L : L = K[p]
    OBVIOUS
  <2>2. o[p] = [x \in DOMAIN g \cap L |-> g[x]]
    BY <2>1, Zenon DEF Only
  <2> QED BY <2>1, <2>2
<1>2. U = DOMAIN g
  <2>1. ASSUME NEW x \in U PROVE x \in DOMAIN g
    BY <1>1
  <2>2. ASSUME NEW x \in DOMAIN g PROVE x \in U
    <3>1. CASE \A p \in D : x \notin K[p]
      BY <3>1
    <3>2. CASE \E p \in D : x \in K[p]
      BY <1>1, <3>2
    <3> QED BY <3>1, <3>2
  <2> QED BY <2>1, <2>2
<1>3. ASSUME NEW x \in DOMAIN g
      PROVE  (IF holders(x) = {} THEN f[x] ELSE o[Max(holders(x))][x]) = g[x]
  <2>1. CASE holders(x) = {}
    <3>1. \A p \in D : x \notin K[p]
      BY <1>1, <2>1
    <3>2. g[x] = f[x]
      BY <3>1
    <3> QED BY <2>1, <3>2
  <2>2. CASE holders(x) # {}
    <3>1. holders(x) \in SUBSET D
      OBVIOUS
    <3>2. IsFiniteSet(holders(x)) /\ holders(x) \in SUBSET Nat
      BY <3>1, FS_Subset
    <3> HIDE DEF holders
    <3>3. PICK p : p = Max(holders(x)) /\ p \in holders(x)
      BY <2>2, <3>2, MaxIsGreatest
    <3>4. p \in D /\ x \in DOMAIN o[p]
      BY <3>3 DEF holders
    <3>5. o[p][x] = g[x]
      BY <1>1, <3>4
    <3> QED BY <2>2, <3>3, <3>5
  <2> QED BY <2>1, <2>2
<1>4. Merged(f, o) = [x \in U |-> IF holders(x) = {} THEN f[x] ELSE o[Max(holders(x))][x]]
  BY DEF Merged
<1> DEFINE b(x) == IF holders(x) = {} THEN f[x] ELSE o[Max(holders(x))][x]
<1>5. Merged(f, o) = [x \in DOMAIN g |-> b(x)]
  BY <1>2, <1>4, Zenon
<1>6. \A x \in DOMAIN g : b(x) = g[x]
  BY <1>3
<1> HIDE DEF b
<1>7. Merged(f, o) = [x \in DOMAIN g |-> g[x]]
  BY <1>5, <1>6
<1> QED BY <1>7

\* A sum of summands with a common bound.
LEMMA SumBounded ==
  ASSUME NEW S, IsFiniteSet(S), NEW f, NEW c \in Nat, \A x \in S : f[x] \in Nat /\ f[x] <= c
  PROVE  SumOver(f, S) \in Nat /\ SumOver(f, S) <= Cardinality(S) * c
<1>0. PICK N \in Nat : N = Cardinality(S)
  BY FS_CardinalityType
<1> DEFINE P(T) == SumOver(f, T) \in Nat /\ SumOver(f, T) <= Cardinality(T) * c
           Q == {n \in 0 .. N : \A T \in SUBSET S : Cardinality(T) = n => P(T)}
<1>1. 0 \in Q
  <2>1. ASSUME NEW T \in SUBSET S, Cardinality(T) = 0 PROVE P(T)
    <3>1. IsFiniteSet(T)
      BY FS_Subset
    <3>2. T = {}
      BY <2>1, <3>1, FS_EmptySet
    <3> QED BY <2>1, <3>2, SumEmpty
  <2> HIDE DEF P
  <2> QED BY <1>0, <2>1
<1>2. ASSUME NEW n \in 0 .. (N - 1), n \in Q PROVE n + 1 \in Q
  <2>1. PICK m \in Nat : m = n + 1 /\ m \in 0 .. N
    BY <1>0
  <2>2. ASSUME NEW T \in SUBSET S, Cardinality(T) = m PROVE P(T)
    <3>1. IsFiniteSet(T)
      BY FS_Subset
    <3>2. T # {}
      <4>1. Cardinality({}) = 0
        BY FS_EmptySet
      <4> QED BY <1>0, <2>1, <2>2, <4>1
    <3>3. PICK x \in T : TRUE
      BY <3>2
    <3>4. Cardinality(T \ {x}) = n /\ T \ {x} \in SUBSET S
      <4>1. Cardinality(T \ {x}) = Cardinality(T) - 1
        BY <3>1, <3>3, FS_RemoveElement
      <4>2. m - 1 = n
        BY <1>0, <2>1
      <4> QED BY <2>2, <4>1, <4>2
    <3>5. P(T \ {x})
      BY <1>2, <3>4
    <3>6. SumOver(f, T) = f[x] + SumOver(f, T \ {x})
      BY <3>1, <3>3, SumOfElement
    <3>7. PICK k : k = SumOver(f, T \ {x})
      OBVIOUS
    <3>8. k \in Nat /\ k <= n * c
      BY <3>4, <3>5, <3>7
    <3>9. m * c = n * c + c /\ n * c \in Nat /\ n \in Nat
      <4>1. n \in Nat
        BY <1>0
      <4>2. (n + 1) * c = n * c + c
        BY <4>1
      <4>3. n * c \in Nat
        BY <4>1
      <4> QED BY <2>1, <4>1, <4>2, <4>3
    <3>10. f[x] \in Nat /\ f[x] <= c
      BY <3>3
    <3>11. f[x] + k \in Nat /\ f[x] + k <= m * c
      BY <3>8, <3>9, <3>10
    <3> QED BY <2>2, <3>6, <3>7, <3>11
  <2> HIDE DEF P
  <2> QED BY <2>1, <2>2
<1> HIDE DEF Q
<1>3. \A n \in 0 .. N : n \in Q
  BY <1>0, <1>1, <1>2, UpTo
<1>4. N \in Q
  BY <1>0, <1>3
<1>5. P(S)
  <2> HIDE DEF P
  <2>1. S \in SUBSET S
    OBVIOUS
  <2> QED BY <1>0, <1>4, <2>1 DEF Q
<1> QED BY <1>5

-----------------------------------------------------------------------------
(* The invariant of the executor.                                          *)

Groups(ps) == [p \in DOMAIN ps |-> ps[p].group]

\* A partition: the transactions left are its last ones, and the gas used and
\* the budget left are the budget it started with.
PartOk(part, budget) ==
  /\ part = [group |-> part.group, todo |-> part.todo, overlay |-> part.overlay,
             budget |-> part.budget, gas_used |-> part.gas_used, fees |-> part.fees]
  /\ part.todo \subseteq part.group
  /\ \A i \in part.group, j \in part.todo : j < i => i \in part.todo
  /\ part.gas_used \in Nat /\ part.budget \in Nat /\ part.gas_used + part.budget = budget

\* The partition has executed its transactions up to n.
ReachedIn(part, n) == \A i \in part.group : i \in part.todo <=> n < i

\* An overlay is the state of the reference run, seen through the keys of the
\* partition, at any point up to which the partition has been executed.
OnTrack(G, part, p, txs) ==
  \A n \in 0 .. Len(txs) : ReachedIn(part, n) =>
    /\ part.overlay = Populated(G[n].state, KeysOf(txs, part.group))
    /\ part.budget = G[n].budget[p]

Running ==
  /\ state = parent /\ totals.gas = 0
  /\ parts = [p \in DOMAIN parts |-> parts[p]]
  /\ Split(Groups(parts), block) /\ IsFiniteSet(DOMAIN parts)
  /\ \A i \in serial : i \in 1 .. Len(block) /\ block[i].kind \in SerialKinds
  /\ \A p \in DOMAIN parts : PartOk(parts[p], PerPartitionGas(Cardinality(DOMAIN parts)))
  /\ outcomes = [i \in DOMAIN outcomes |-> outcomes[i]]
  /\ \A i : i \in DOMAIN outcomes <=> \E p \in DOMAIN parts : i \in parts[p].group \ parts[p].todo
  /\ \A G : IsRun(G, block, parent, Groups(parts)) =>
       /\ \A p \in DOMAIN parts : OnTrack(G, parts[p], p, block)
       /\ \A i \in DOMAIN outcomes : outcomes[i] = G[Len(block)].ok[i]

CountedKinds == {"Transfer", "ValidatorStake", "Governance", "ValidatorExit", "ValidatorClaimStake",
                 "DeployTemplate"}

\* The serial stage: what has executed has used up its nonce.
Finishing ==
  /\ \A i \in serial : i \in 1 .. Len(block) /\ block[i].kind \in SerialKinds /\ i \notin DOMAIN outcomes
  /\ \A p \in DOMAIN parts : parts[p].group \cap serial = {}
  /\ DOMAIN outcomes \subseteq 1 .. Len(block)
  /\ \A i \in DOMAIN outcomes : outcomes[i] /\ block[i].kind \in CountedKinds =>
       block[i].nonce < Account(state, block[i].from).nonce

ExecutorInv ==
  /\ state \in Dbs /\ parent \in Dbs /\ block \in Seq(Txs) /\ number \in Nat /\ totals.gas \in Nat
  /\ stage = "parallel" => Running
  /\ stage = "serial" => Finishing
  /\ GasWithinLimit /\ ParallelIsSequential /\ SupplyNeverGrows /\ NonceUsedOnce

\* The reference run has the partitions of the block.
LEMMA TheRun ==
  ASSUME block \in Seq(Txs), parent \in Dbs, Split(Groups(parts), block), IsFiniteSet(DOMAIN parts)
  PROVE  \E G : IsRun(G, block, parent, Groups(parts)) /\ Sequential = G[Len(block)]
<1>1. PICK gs : gs = Groups(parts)
  OBVIOUS
<1>2. DOMAIN gs = DOMAIN parts
  BY <1>1 DEF Groups
<1>3. Split(gs, block) /\ IsFiniteSet(DOMAIN gs)
  BY <1>1, <1>2
<1>4. PICK G : IsRun(G, block, parent, gs) /\ Sequentially(block, parent, gs) = G[Len(block)]
  BY <1>3, RunExists
<1>5. Sequential = Sequentially(block, parent, gs)
  BY <1>1 DEF Sequential, Groups
<1> QED BY <1>1, <1>4, <1>5

\* A block that starts.
LEMMA StartRuns ==
  ASSUME ExecutorInv, NEW txs \in Seq(Txs), StartBlock(txs)
  PROVE  /\ Running' /\ state' \in Dbs /\ parent' \in Dbs /\ block' \in Seq(Txs) /\ number' \in Nat
         /\ totals'.gas \in Nat /\ stage' = "parallel"
<1>1. PICK groups : groups = Partitions(txs)
  OBVIOUS
<1>2. Grouping(groups, txs, Len(txs))
  BY <1>1, PartitionsAre
<1>3. PICK gs : gs = ByFirst(groups)
  OBVIOUS
<1>4. /\ Split(gs, txs) /\ IsFiniteSet(DOMAIN gs) /\ Cardinality(DOMAIN gs) = Cardinality(groups)
  BY <1>2, <1>3, SplitOf
<1>5. PICK c : c = PerPartitionGas(Cardinality(groups))
  OBVIOUS
<1>6. c \in Nat /\ c = PerPartitionGas(Cardinality(DOMAIN gs))
  BY <1>4, <1>5, BudgetType, FS_CardinalityType
<1> DEFINE part(g) == [group |-> g, todo |-> g, overlay |-> Populated(state, KeysOf(txs, g)),
                       budget |-> c, gas_used |-> 0, fees |-> 0]
<1>7. parts' = [p \in Firsts(groups) |-> part(GroupOf(groups, p))]
  BY <1>1, <1>5, Zenon DEF StartBlock, Firsts, GroupOf
<1>8. /\ DOMAIN gs = Firsts(groups)
      /\ \A p \in DOMAIN gs : gs[p] = GroupOf(groups, p)
      /\ gs = [p \in DOMAIN gs |-> gs[p]]
  BY <1>3 DEF ByFirst
<1>9. parts' = [p \in DOMAIN gs |-> part(gs[p])]
  <2> HIDE DEF part
  <2> QED BY <1>7, <1>8
<1>10. DOMAIN parts' = DOMAIN gs /\ \A p \in DOMAIN gs : parts'[p] = part(gs[p])
  <2> HIDE DEF part
  <2> QED BY <1>9
<1>11. /\ block' = txs /\ stage' = "parallel" /\ parent' = state /\ state' = state
       /\ outcomes' = <<>> /\ totals' = [gas |-> 0, fees |-> 0] /\ number' = number + 1
       /\ serial' = DOMAIN txs \ UNION groups
  BY <1>1, Zenon DEF StartBlock
<1>12. state \in Dbs /\ number \in Nat
  BY DEF ExecutorInv
<1>13. Groups(parts)' = gs
  <2>1. \A p \in DOMAIN gs : parts'[p].group = gs[p]
    BY <1>10
  <2>2. Groups(parts)' = [p \in DOMAIN parts' |-> parts'[p].group]
    BY DEF Groups
  <2> HIDE DEF part
  <2>3. DOMAIN parts' = DOMAIN gs /\ gs = [p \in DOMAIN gs |-> gs[p]]
    BY <1>8, <1>10
  <2> QED BY <2>1, <2>2, <2>3
<1>14. ASSUME NEW p \in DOMAIN gs PROVE PartOk(parts'[p], c)
  <2>1. PICK g : g = gs[p]
    OBVIOUS
  <2>2. parts'[p] = part(g)
    BY <1>10, <2>1
  <2> QED BY <1>6, <2>2 DEF PartOk
<1>15. ASSUME NEW i \in serial' PROVE i \in 1 .. Len(txs) /\ txs[i].kind \in SerialKinds
  <2>1. UNION groups = {j \in 1 .. Len(txs) : txs[j].kind \notin SerialKinds} /\ DOMAIN txs = 1 .. Len(txs)
    BY <1>2 DEF Grouping
  <2>2. i \in DOMAIN txs /\ i \notin UNION groups
    BY <1>11
  <2> QED BY <2>1, <2>2
<1>16. ASSUME NEW G, IsRun(G, txs, state, gs), NEW p \in DOMAIN gs PROVE OnTrack(G, parts'[p], p, txs)
  <2>1. /\ parts'[p].group = gs[p] /\ parts'[p].todo = gs[p] /\ parts'[p].budget = c
        /\ parts'[p].overlay = Populated(state, KeysOf(txs, gs[p]))
    <3>1. PICK g : g = gs[p]
      OBVIOUS
    <3>2. parts'[p] = part(g)
      BY <1>10, <3>1
    <3> QED BY <3>1, <3>2
  <2>2. G[0].state = state /\ G[0].budget[p] = c
    BY <1>6, <1>16 DEF IsRun, Started
  <2>3. ASSUME NEW n \in 0 .. Len(txs), ReachedIn(parts'[p], n)
        PROVE  /\ parts'[p].overlay = Populated(G[n].state, KeysOf(txs, parts'[p].group))
               /\ parts'[p].budget = G[n].budget[p]
    <3>1. \A j \in gs[p] : 0 < j => n < j
      BY <2>1, <2>3 DEF ReachedIn
    <3>2. 0 \in 0 .. Len(txs) /\ 0 <= n
      OBVIOUS
    <3>3. /\ Populated(G[n].state, KeysOf(txs, gs[p])) = Populated(G[0].state, KeysOf(txs, gs[p]))
          /\ G[n].budget[p] = G[0].budget[p]
      BY <1>4, <1>12, <1>16, <3>1, <3>2, RunQuiet
    <3> QED BY <2>1, <2>2, <3>3
  <2> QED BY <2>3 DEF OnTrack
<1>17. outcomes' = [i \in DOMAIN outcomes' |-> outcomes'[i]] /\ DOMAIN outcomes' = {}
  BY <1>11
<1>18. ASSUME NEW i, NEW p \in DOMAIN parts' PROVE i \notin parts'[p].group \ parts'[p].todo
  <2>1. PICK g : g = gs[p]
    OBVIOUS
  <2>2. parts'[p] = part(g)
    BY <1>10, <2>1
  <2> QED BY <2>2
<1>19. parts' = [p \in DOMAIN parts' |-> parts'[p]] /\ totals'.gas = 0
  BY <1>9, <1>11
<1> HIDE DEF part
<1>20. Running'
  <2>1. state' = parent' /\ totals'.gas = 0 /\ parts' = [p \in DOMAIN parts' |-> parts'[p]]
    BY <1>11, <1>19
  <2>2. Split(Groups(parts)', block') /\ IsFiniteSet(DOMAIN parts')
    BY <1>4, <1>10, <1>11, <1>13
  <2>3. \A i \in serial' : i \in 1 .. Len(block') /\ block'[i].kind \in SerialKinds
    BY <1>11, <1>15
  <2>4. \A p \in DOMAIN parts' : PartOk(parts'[p], PerPartitionGas(Cardinality(DOMAIN parts')))
    BY <1>6, <1>10, <1>14
  <2>5. \A i : i \in DOMAIN outcomes' <=> \E p \in DOMAIN parts' : i \in parts'[p].group \ parts'[p].todo
    BY <1>17, <1>18
  <2>6. \A G : IsRun(G, block', parent', Groups(parts)') =>
          /\ \A p \in DOMAIN parts' : OnTrack(G, parts'[p], p, block')
          /\ \A i \in DOMAIN outcomes' : outcomes'[i] = G[Len(block')].ok[i]
    BY <1>10, <1>11, <1>13, <1>16, <1>17
  <2> QED BY <1>17, <2>1, <2>2, <2>3, <2>4, <2>5, <2>6 DEF Running
<1>21. state' \in Dbs /\ parent' \in Dbs /\ block' \in Seq(Txs) /\ number' \in Nat
  BY <1>11, <1>12
<1> QED BY <1>11, <1>19, <1>20, <1>21

\* The turn of a partition is a turn of the reference run.
LEMMA PartTurn ==
  ASSUME NEW txs \in Seq(Txs), NEW d \in Dbs, NEW gs, Split(gs, txs), NEW G, IsRun(G, txs, d, gs),
         NEW p \in DOMAIN gs, NEW part, part.group = gs[p], NEW c, PartOk(part, c),
         part.todo # {}, OnTrack(G, part, p, txs)
  PROVE  LET i == Min(part.todo)
             r == Turn(part.overlay, txs[i], part.budget)
         IN /\ i \in part.todo /\ i \in 1 .. Len(txs) /\ \A j \in part.todo : i <= j
            /\ r.overlay = Populated(G[i].state, KeysOf(txs, gs[p])) /\ r.budget = G[i].budget[p]
            /\ i \in DOMAIN G[i].ok /\ r.ok = G[i].ok[i]
            /\ r.budget \in Nat /\ r.gas \in Nat /\ r.budget + r.gas = part.budget
<1>0. PICK i : i = Min(part.todo)
  OBVIOUS
<1>1. gs[p] \subseteq 1 .. Len(txs) /\ part.todo \subseteq gs[p]
  BY DEF Split, PartOk
<1>2. part.todo \in SUBSET Nat
  BY <1>1
<1>3. i \in part.todo /\ \A j \in part.todo : i <= j
  BY <1>0, <1>2, MinIsLeast
<1>4. i \in 1 .. Len(txs) /\ i \in gs[p] /\ txs[i].kind \notin SerialKinds
  BY <1>1, <1>3 DEF Split
<1>5. PICK m \in 0 .. Len(txs) : m = i - 1
  BY <1>4
<1>6. ReachedIn(part, m)
  <2> SUFFICES ASSUME NEW k \in gs[p] PROVE k \in part.todo <=> m < k
    BY DEF ReachedIn
  <2>1. k \in 1 .. Len(txs)
    BY <1>1
  <2>2. k \in part.todo => m < k
    BY <1>3, <1>4, <1>5, <2>1
  <2>3. m < k => k = i \/ i < k
    BY <1>4, <1>5, <2>1
  <2>4. i < k => k \in part.todo
    BY <1>3 DEF PartOk
  <2> QED BY <1>3, <2>2, <2>3, <2>4
<1>7. part.overlay = Populated(G[m].state, KeysOf(txs, gs[p])) /\ part.budget = G[m].budget[p]
  BY <1>6 DEF OnTrack
<1>8. G[m] \in Accs(Len(txs), DOMAIN gs) /\ StepDone(G[m], G[i], txs, gs, i)
  BY <1>4, <1>5, RunStep
<1>9. Home(gs, i) = p
  BY <1>4, HomeIs
<1>10. PICK r : r = Turn(G[m].state, txs[i], G[m].budget[p])
  OBVIOUS
<1>11. /\ Parallel(txs[i]) /\ G[m].budget[p] \in Nat /\ G[m].state \in Dbs
       /\ G[i].state = r.overlay /\ G[i].budget[p] = r.budget
  BY <1>8, <1>9, <1>10 DEF StepDone, Accs
<1>12. G[i].ok = With(G[m].ok, i, r.ok)
  BY <1>8, <1>9, <1>10 DEF StepDone
<1>13. i \in DOMAIN G[i].ok /\ G[i].ok[i] = r.ok
  <2>1. PICK k : k = i
    OBVIOUS
  <2>2. G[i].ok = With(G[m].ok, k, r.ok)
    BY <1>12, <2>1, Zenon
  <2>3. k \in DOMAIN With(G[m].ok, k, r.ok) /\ With(G[m].ok, k, r.ok)[k] = r.ok
    BY DEF With
  <2> QED BY <2>1, <2>2, <2>3, Zenon
<1>14. PICK K : K = KeysOf(txs, gs[p])
  OBVIOUS
<1>15. AccessKeys(txs[i]) \subseteq K
  BY <1>4, <1>14 DEF KeysOf
<1>16. PICK q : q = Turn(Populated(G[m].state, K), txs[i], G[m].budget[p])
  OBVIOUS
<1>17. /\ q.overlay = Populated(r.overlay, K) /\ q.budget = r.budget /\ q.ok = r.ok
       /\ q.gas = r.gas
  BY <1>10, <1>11, <1>15, <1>16, TurnLocal
<1>18. TurnDone(G[m].state, txs[i], G[m].budget[p], r)
  BY <1>10, <1>11, TurnFacts
<1>19. r.budget \in Nat /\ r.gas \in Nat /\ r.budget + r.gas = G[m].budget[p]
  BY <1>18 DEF TurnDone
<1>20. q = Turn(part.overlay, txs[i], part.budget)
  BY <1>7, <1>14, <1>16
<1>21. q.ok = G[i].ok[i]
  BY <1>13, <1>17, Zenon
<1>22. /\ q.overlay = Populated(G[i].state, KeysOf(txs, gs[p])) /\ q.budget = G[i].budget[p]
       /\ q.budget \in Nat /\ q.gas \in Nat /\ q.budget + q.gas = part.budget
  BY <1>7, <1>11, <1>14, <1>17, <1>19
<1> QED BY <1>0, <1>3, <1>4, <1>13, <1>20, <1>21, <1>22, Zenon

\* The partition after the turn.
LEMMA TurnTracks ==
  ASSUME NEW txs \in Seq(Txs), NEW d \in Dbs, NEW gs, Split(gs, txs), NEW G, IsRun(G, txs, d, gs),
         NEW p \in DOMAIN gs, NEW part, part.group = gs[p], NEW c, PartOk(part, c),
         NEW i \in part.todo, i \in 1 .. Len(txs), \A j \in part.todo : i <= j,
         NEW next, next.group = part.group, next.todo = part.todo \ {i},
         next.overlay = Populated(G[i].state, KeysOf(txs, gs[p])), next.budget = G[i].budget[p]
  PROVE  OnTrack(G, next, p, txs)
<1>1. SUFFICES ASSUME NEW n \in 0 .. Len(txs), ReachedIn(next, n)
               PROVE  /\ next.overlay = Populated(G[n].state, KeysOf(txs, gs[p]))
                      /\ next.budget = G[n].budget[p]
  BY DEF OnTrack
<1>2. \A k \in gs[p] : (k \in part.todo /\ k # i) <=> n < k
  BY <1>1 DEF ReachedIn
<1>3. i \in gs[p] /\ gs[p] \subseteq 1 .. Len(txs)
  BY DEF PartOk, Split
<1>4. i <= n /\ i \in 0 .. Len(txs)
  BY <1>2, <1>3
<1>5. ASSUME NEW j \in gs[p], i < j PROVE n < j
  <2>1. j \in part.todo /\ j # i
    BY <1>3, <1>5 DEF PartOk
  <2> QED BY <1>2, <2>1
<1>6. /\ Populated(G[n].state, KeysOf(txs, gs[p])) = Populated(G[i].state, KeysOf(txs, gs[p]))
      /\ G[n].budget[p] = G[i].budget[p]
  BY <1>4, <1>5, RunQuiet
<1> QED BY <1>6

\* A turn of one partition leaves the run on track.
LEMMA TurnRuns ==
  ASSUME ExecutorInv, NEW p, ExecutePartition(p)
  PROVE  /\ Running' /\ stage' = "parallel"
         /\ UNCHANGED <<state, block, parent, number, totals>>
<1>1. /\ stage = "parallel" /\ p \in DOMAIN parts /\ parts[p].todo # {} /\ stage' = stage
      /\ UNCHANGED <<state, block, parent, number, totals, serial>>
  BY DEF ExecutePartition
<1>2. Running /\ block \in Seq(Txs) /\ parent \in Dbs
  BY <1>1 DEF ExecutorInv
<1>3. PICK gs : gs = Groups(parts)
  OBVIOUS
<1>4. DOMAIN gs = DOMAIN parts /\ \A q \in DOMAIN gs : gs[q] = parts[q].group
  BY <1>3 DEF Groups
<1>5. Split(gs, block) /\ IsFiniteSet(DOMAIN parts)
  BY <1>2, <1>3 DEF Running
<1>6. PICK part : part = parts[p]
  OBVIOUS
<1>7. PICK c : c = PerPartitionGas(Cardinality(DOMAIN parts))
  OBVIOUS
<1>8. PartOk(part, c) /\ part.group = gs[p] /\ part.todo # {} /\ p \in DOMAIN gs
  BY <1>1, <1>2, <1>4, <1>6, <1>7 DEF Running
<1>9. PICK i : i = Min(part.todo)
  OBVIOUS
<1>10. PICK r : r = Turn(part.overlay, block[i], part.budget)
  OBVIOUS
<1>11. PICK next : next = Taken(part, i, r)
  OBVIOUS
<1>12. /\ outcomes' = With(outcomes, i, r.ok)
       /\ DOMAIN parts' = DOMAIN parts /\ parts' = [q \in DOMAIN parts' |-> parts'[q]]
       /\ parts'[p] = next
       /\ \A q \in DOMAIN parts : q # p => parts'[q] = parts[q]
  <2>1. outcomes' = With(outcomes, i, r.ok)
    BY <1>6, <1>9, <1>10, Zenon DEF ExecutePartition
  <2>2. parts' = [parts EXCEPT ![p] = next]
    BY <1>6, <1>9, <1>10, <1>11, Zenon DEF ExecutePartition
  <2> QED BY <1>1, <2>1, <2>2
<1>13. /\ next = [group |-> part.group, todo |-> part.todo \ {i}, overlay |-> r.overlay,
                  budget |-> r.budget, gas_used |-> part.gas_used + r.gas, fees |-> part.fees + r.fee]
  <2>1. part = [group |-> part.group, todo |-> part.todo, overlay |-> part.overlay,
                budget |-> part.budget, gas_used |-> part.gas_used, fees |-> part.fees]
    BY <1>8 DEF PartOk
  <2> QED BY <1>11, <2>1 DEF Taken
<1>15. /\ DOMAIN parts' = DOMAIN parts /\ parts' = [q \in DOMAIN parts' |-> parts'[q]]
       /\ parts'[p] = next
       /\ \A q \in DOMAIN parts : q # p => parts'[q] = parts[q]
  BY <1>12
<1>16. next.group = part.group /\ next.todo = part.todo \ {i} /\ next.overlay = r.overlay /\ next.budget = r.budget
       /\ next.gas_used = part.gas_used + r.gas
  BY <1>13
<1>17. Groups(parts)' = gs
  <2>1. Groups(parts)' = [q \in DOMAIN parts' |-> parts'[q].group]
    BY DEF Groups
  <2>2. gs = [q \in DOMAIN parts |-> parts[q].group]
    BY <1>3 DEF Groups
  <2>3. \A q \in DOMAIN parts : parts'[q].group = parts[q].group
    BY <1>6, <1>15, <1>16
  <2> QED BY <1>15, <2>1, <2>2, <2>3
<1>18. ASSUME NEW G, IsRun(G, block, parent, gs)
       PROVE  /\ i \in part.todo /\ i \in 1 .. Len(block) /\ \A j \in part.todo : i <= j
              /\ r.overlay = Populated(G[i].state, KeysOf(block, gs[p])) /\ r.budget = G[i].budget[p]
              /\ i \in DOMAIN G[i].ok /\ r.ok = G[i].ok[i]
              /\ r.budget \in Nat /\ r.gas \in Nat /\ r.budget + r.gas = part.budget
  <2>1. OnTrack(G, part, p, block)
    BY <1>1, <1>2, <1>3, <1>6, <1>18 DEF Running
  <2> QED BY <1>2, <1>5, <1>8, <1>9, <1>10, <1>18, <2>1, PartTurn
<1>19. PICK G0 : IsRun(G0, block, parent, gs)
  BY <1>2, <1>3, <1>5, TheRun
<1>20. /\ i \in part.todo /\ i \in 1 .. Len(block) /\ \A j \in part.todo : i <= j
  BY <1>18, <1>19, Zenon
<1>21. r.budget \in Nat /\ r.gas \in Nat /\ r.budget + r.gas = part.budget
  BY <1>18, <1>19, Zenon
<1>22. PartOk(next, c)
  <2>1. /\ part.todo \subseteq part.group
        /\ \A k \in part.group, j \in part.todo : j < k => k \in part.todo
        /\ part.gas_used \in Nat /\ part.budget \in Nat /\ part.gas_used + part.budget = c
    BY <1>8 DEF PartOk
  <2>2. next.todo \subseteq next.group
    BY <1>16, <2>1
  <2>3. ASSUME NEW k \in next.group, NEW j \in next.todo, j < k PROVE k \in next.todo
    <3>1. k \in part.todo /\ j \in part.todo /\ j # i /\ i <= j
      BY <1>16, <1>20, <2>1, <2>3
    <3>2. part.todo \subseteq 1 .. Len(block)
      BY <1>5, <1>8, <2>1 DEF Split
    <3>3. k # i
      BY <1>20, <2>3, <3>1, <3>2
    <3> QED BY <1>16, <3>1, <3>3
  <2>4. next.gas_used \in Nat /\ next.budget \in Nat /\ next.gas_used + next.budget = c
    BY <1>16, <1>21, <2>1
  <2>5. next = [group |-> next.group, todo |-> next.todo, overlay |-> next.overlay,
                budget |-> next.budget, gas_used |-> next.gas_used, fees |-> next.fees]
    BY <1>13
  <2> QED BY <2>2, <2>3, <2>4, <2>5 DEF PartOk
<1>23. ASSUME NEW q \in DOMAIN parts' PROVE PartOk(parts'[q], PerPartitionGas(Cardinality(DOMAIN parts')))
  <2>1. PerPartitionGas(Cardinality(DOMAIN parts')) = c
    BY <1>7, <1>15
  <2>2. CASE q = p
    BY <1>15, <1>22, <2>1, <2>2
  <2>3. CASE q # p
    <3>1. PartOk(parts[q], c)
      BY <1>2, <1>7, <1>15 DEF Running
    <3> QED BY <1>15, <2>1, <2>3, <3>1
  <2> QED BY <2>2, <2>3
<1>24. PICK w : w = outcomes'
  OBVIOUS
<1>25. /\ DOMAIN w = DOMAIN outcomes \cup {i} /\ w = [k \in DOMAIN w |-> w[k]]
  BY <1>12, <1>24 DEF With
<1>26. w[i] = r.ok
  <2>1. PICK k : k = i
    OBVIOUS
  <2>2. w = With(outcomes, k, r.ok)
    BY <1>12, <1>24, <2>1
  <2>3. w[k] = r.ok
    BY <2>2 DEF With
  <2> QED BY <2>1, <2>3, Zenon
<1>27. ASSUME NEW k \in DOMAIN outcomes, k # i PROVE w[k] = outcomes[k]
  <2>1. w = With(outcomes, i, r.ok)
    BY <1>12, <1>24
  <2> QED BY <1>27, <2>1 DEF With
<1>28. \A k : k \in DOMAIN outcomes <=> \E q \in DOMAIN parts : k \in parts[q].group \ parts[q].todo
  BY <1>2 DEF Running
<1>29. ASSUME NEW k
       PROVE  k \in DOMAIN w <=> \E q \in DOMAIN parts' : k \in parts'[q].group \ parts'[q].todo
  <2>1. CASE k = i
    <3>1. i \in parts'[p].group \ parts'[p].todo
      BY <1>8, <1>15, <1>16, <1>20 DEF PartOk
    <3> QED BY <1>1, <1>15, <1>25, <2>1, <3>1
  <2>2. CASE k # i
    <3>1. k \in DOMAIN w <=> k \in DOMAIN outcomes
      BY <1>25, <2>2
    <3>2. \A q \in DOMAIN parts : k \in parts'[q].group \ parts'[q].todo <=> k \in parts[q].group \ parts[q].todo
      BY <1>6, <1>15, <1>16, <2>2
    <3> QED BY <1>15, <1>28, <3>1, <3>2
  <2> QED BY <2>1, <2>2
<1>30. ASSUME NEW G, IsRun(G, block, parent, gs)
       PROVE  /\ \A q \in DOMAIN parts' : OnTrack(G, parts'[q], q, block)
              /\ \A k \in DOMAIN w : w[k] = G[Len(block)].ok[k]
  <2>1. /\ \A q \in DOMAIN parts : OnTrack(G, parts[q], q, block)
        /\ \A k \in DOMAIN outcomes : outcomes[k] = G[Len(block)].ok[k]
    BY <1>2, <1>3, <1>30 DEF Running
  <2>2. /\ r.overlay = Populated(G[i].state, KeysOf(block, gs[p])) /\ r.budget = G[i].budget[p]
        /\ i \in DOMAIN G[i].ok /\ r.ok = G[i].ok[i]
    BY <1>18, <1>30, Zenon
  <2>3. OnTrack(G, next, p, block)
    BY <1>2, <1>5, <1>8, <1>16, <1>20, <1>30, <2>2, TurnTracks
  <2>4. ASSUME NEW q \in DOMAIN parts' PROVE OnTrack(G, parts'[q], q, block)
    BY <1>15, <2>1, <2>3
  <2>5. i \in 0 .. Len(block) /\ Len(block) \in 0 .. Len(block) /\ i <= Len(block)
    BY <1>2, <1>20
  <2>6. \A k \in DOMAIN G[i].ok : k \in DOMAIN G[Len(block)].ok /\ G[Len(block)].ok[k] = G[i].ok[k]
    BY <1>2, <1>5, <1>30, <2>5, RunStays
  <2>7. G[Len(block)].ok[i] = G[i].ok[i]
    BY <2>2, <2>6, Zenon
  <2>8. w[i] = G[Len(block)].ok[i]
    BY <1>26, <2>2, <2>7, Zenon
  <2>9. ASSUME NEW k \in DOMAIN w PROVE w[k] = G[Len(block)].ok[k]
    BY <1>25, <1>27, <2>1, <2>8
  <2> QED BY <2>4, <2>9
<1>31. Running'
  <2>1. state' = parent' /\ totals'.gas = 0
    BY <1>1, <1>2 DEF Running
  <2>2. Split(Groups(parts)', block') /\ IsFiniteSet(DOMAIN parts')
    BY <1>1, <1>5, <1>15, <1>17
  <2>3. \A k \in serial' : k \in 1 .. Len(block') /\ block'[k].kind \in SerialKinds
    BY <1>1, <1>2 DEF Running
  <2>4. outcomes' = [k \in DOMAIN outcomes' |-> outcomes'[k]]
    BY <1>24, <1>25, Zenon
  <2>5. \A k : k \in DOMAIN outcomes' <=> \E q \in DOMAIN parts' : k \in parts'[q].group \ parts'[q].todo
    BY <1>24, <1>29, Zenon
  <2>6. \A G : IsRun(G, block', parent', Groups(parts)') =>
          /\ \A q \in DOMAIN parts' : OnTrack(G, parts'[q], q, block')
          /\ \A k \in DOMAIN outcomes' : outcomes'[k] = G[Len(block')].ok[k]
    BY <1>1, <1>17, <1>24, <1>30
  <2> QED BY <1>15, <1>23, <2>1, <2>2, <2>3, <2>4, <2>5, <2>6 DEF Running
<1> QED BY <1>1, <1>31

\* A key of no partition has the entry it had before the block.
LEMMA Untouched ==
  ASSUME NEW txs \in Seq(Txs), NEW d \in Dbs, NEW gs, Split(gs, txs), NEW G, IsRun(G, txs, d, gs),
         NEW x, \A p \in DOMAIN gs : x \notin KeysOf(txs, gs[p])
  PROVE  LET e == G[Len(txs)].state
         IN /\ x \in DOMAIN e.accounts => x \in DOMAIN d.accounts /\ e.accounts[x] = d.accounts[x]
            /\ x \in DOMAIN e.objects => x \in DOMAIN d.objects /\ e.objects[x] = d.objects[x]
            /\ x \in DOMAIN e.ghosts => x \in DOMAIN d.ghosts /\ e.ghosts[x] = d.ghosts[x]
<1>1. PICK K : K = {x}
  OBVIOUS
<1>2. PICK N \in Nat : N = Len(txs)
  OBVIOUS
<1>3. PICK e : e = G[N].state
  OBVIOUS
<1>4. ASSUME NEW j \in 1 .. N, txs[j].kind \notin SerialKinds PROVE AccessKeys(txs[j]) \cap K = {}
  <2>1. PICK q \in DOMAIN gs : j \in gs[q]
    BY <1>2, <1>4 DEF Split
  <2>2. AccessKeys(txs[j]) \subseteq KeysOf(txs, gs[q])
    BY <2>1 DEF KeysOf
  <2> QED BY <1>1, <2>2
<1>5. 0 \in 0 .. N /\ N \in 0 .. N /\ 0 <= N
  BY <1>2
<1>6. \A L : (\A j \in 1 .. N : 0 < j /\ j <= N /\ txs[j].kind \notin SerialKinds
                                  => AccessKeys(txs[j]) \cap L = {})
               => Populated(G[N].state, L) = Populated(G[0].state, L)
  BY <1>2, <1>5, RunStays
<1>7. Populated(e, K) = Populated(G[0].state, K)
  BY <1>3, <1>4, <1>6
<1>8. G[0].state = d
  BY DEF IsRun, Started
<1>9. /\ Only(e.accounts, K) = Only(d.accounts, K) /\ Only(e.objects, K) = Only(d.objects, K)
      /\ Only(e.ghosts, K) = Only(d.ghosts, K)
  <2>1. Populated(e, K) = Populated(d, K)
    BY <1>7, <1>8
  <2>2. /\ Populated(e, K).accounts = Only(e.accounts, K) /\ Populated(e, K).objects = Only(e.objects, K)
        /\ Populated(e, K).ghosts = Only(e.ghosts, K)
    BY PopulatedIs
  <2>3. /\ Populated(d, K).accounts = Only(d.accounts, K) /\ Populated(d, K).objects = Only(d.objects, K)
        /\ Populated(d, K).ghosts = Only(d.ghosts, K)
    BY PopulatedIs
  <2> QED BY <2>1, <2>2, <2>3
<1>10. ASSUME NEW f, NEW g, Only(g, K) = Only(f, K), x \in DOMAIN g PROVE x \in DOMAIN f /\ g[x] = f[x]
  <2>1. /\ DOMAIN Only(g, K) = DOMAIN g \cap K /\ \A y \in DOMAIN g \cap K : Only(g, K)[y] = g[y]
    BY DEF Only
  <2>2. /\ DOMAIN Only(f, K) = DOMAIN f \cap K /\ \A y \in DOMAIN f \cap K : Only(f, K)[y] = f[y]
    BY DEF Only
  <2>3. x \in DOMAIN g \cap K
    BY <1>1, <1>10
  <2>4. x \in DOMAIN f \cap K
    BY <1>10, <2>1, <2>2, <2>3
  <2> QED BY <1>10, <2>1, <2>2, <2>3, <2>4
<1>11. x \in DOMAIN e.accounts => x \in DOMAIN d.accounts /\ e.accounts[x] = d.accounts[x]
  BY <1>9, <1>10
<1>12. x \in DOMAIN e.objects => x \in DOMAIN d.objects /\ e.objects[x] = d.objects[x]
  BY <1>9, <1>10
<1>13. x \in DOMAIN e.ghosts => x \in DOMAIN d.ghosts /\ e.ghosts[x] = d.ghosts[x]
  BY <1>9, <1>10
<1> QED BY <1>2, <1>3, <1>11, <1>12, <1>13

\* The merged state is the last state of the run.
LEMMA MergedRun ==
  ASSUME ExecutorInv, MergeOverlays, NEW G, IsRun(G, block, parent, Groups(parts))
  PROVE  state' = G[Len(block)].state /\ outcomes = G[Len(block)].ok
<1>1. /\ stage = "parallel" /\ \A p \in DOMAIN parts : parts[p].todo = {}
  BY DEF MergeOverlays
<1>2. Running /\ block \in Seq(Txs) /\ parent \in Dbs /\ state = parent
  BY <1>1 DEF ExecutorInv, Running
<1>3. PICK gs : gs = Groups(parts)
  OBVIOUS
<1>4. DOMAIN gs = DOMAIN parts /\ \A q \in DOMAIN gs : gs[q] = parts[q].group
  BY <1>3 DEF Groups
<1>5. Split(gs, block) /\ IsFiniteSet(DOMAIN gs)
  BY <1>2, <1>3, <1>4 DEF Running
<1>6. PICK N \in Nat : N = Len(block)
  BY <1>2
<1>7. IsRun(G, block, parent, gs)
  BY <1>3
<1>8. PICK e : e = G[N].state
  OBVIOUS
<1>9. RunDone(parent, G[N], block, N)
  <2>1. N \in 0 .. Len(block)
    BY <1>6
  <2> QED BY <1>2, <1>5, <1>6, <1>7, <2>1, RunFacts
<1>10. /\ e \in Dbs /\ e.stakes = parent.stakes
       /\ DOMAIN parent.accounts \subseteq DOMAIN e.accounts
       /\ DOMAIN parent.objects \subseteq DOMAIN e.objects
       /\ DOMAIN parent.ghosts \subseteq DOMAIN e.ghosts
       /\ DOMAIN G[N].ok = {i \in 1 .. N : block[i].kind \notin SerialKinds}
  BY <1>8, <1>9 DEF RunDone
<1>11. PICK K : K = [p \in DOMAIN gs |-> KeysOf(block, gs[p])]
  OBVIOUS
<1>12. \A p \in DOMAIN gs : K[p] = KeysOf(block, gs[p])
  BY <1>11
<1>13. ASSUME NEW p \in DOMAIN gs
       PROVE  /\ parts[p].overlay.accounts = Only(e.accounts, K[p])
              /\ parts[p].overlay.objects = Only(e.objects, K[p])
              /\ parts[p].overlay.ghosts = Only(e.ghosts, K[p])
  <2>1. OnTrack(G, parts[p], p, block)
    BY <1>2, <1>4 DEF Running
  <2>2. parts[p].todo = {} /\ parts[p].group \subseteq 1 .. N
    BY <1>1, <1>4, <1>5, <1>6 DEF Split
  <2>3. ReachedIn(parts[p], N)
    BY <2>2 DEF ReachedIn
  <2>4. N \in 0 .. Len(block)
    BY <1>6
  <2>5. parts[p].overlay = Populated(e, KeysOf(block, parts[p].group))
    BY <1>8, <2>1, <2>3, <2>4 DEF OnTrack
  <2>6. parts[p].overlay = Populated(e, K[p])
    BY <1>4, <1>12, <2>5
  <2> QED BY <2>6, PopulatedIs
<1>14. ASSUME NEW p \in DOMAIN gs, NEW q \in DOMAIN gs, p # q PROVE K[p] \cap K[q] = {}
  BY <1>5, <1>12, <1>14, KeysApart
<1>15. DOMAIN gs \in SUBSET Nat
  BY <1>5 DEF Split
<1>16. ASSUME NEW x, \A p \in DOMAIN gs : x \notin K[p]
       PROVE  /\ x \in DOMAIN e.accounts => x \in DOMAIN parent.accounts /\ e.accounts[x] = parent.accounts[x]
              /\ x \in DOMAIN e.objects => x \in DOMAIN parent.objects /\ e.objects[x] = parent.objects[x]
              /\ x \in DOMAIN e.ghosts => x \in DOMAIN parent.ghosts /\ e.ghosts[x] = parent.ghosts[x]
  BY <1>2, <1>5, <1>6, <1>7, <1>8, <1>12, <1>16, Untouched
<1>17. PICK a : a = [p \in DOMAIN parts |-> parts[p].overlay.accounts]
  OBVIOUS
<1>18. PICK b : b = [p \in DOMAIN parts |-> parts[p].overlay.objects]
  OBVIOUS
<1>19. PICK c : c = [p \in DOMAIN parts |-> parts[p].overlay.ghosts]
  OBVIOUS
<1>20. /\ DOMAIN a = DOMAIN gs /\ DOMAIN b = DOMAIN gs /\ DOMAIN c = DOMAIN gs
       /\ \A p \in DOMAIN gs : a[p] = Only(e.accounts, K[p])
       /\ \A p \in DOMAIN gs : b[p] = Only(e.objects, K[p])
       /\ \A p \in DOMAIN gs : c[p] = Only(e.ghosts, K[p])
  BY <1>4, <1>13, <1>17, <1>18, <1>19
<1>21. /\ e.accounts = [x \in DOMAIN e.accounts |-> e.accounts[x]]
       /\ e.objects = [x \in DOMAIN e.objects |-> e.objects[x]]
       /\ e.ghosts = [x \in DOMAIN e.ghosts |-> e.ghosts[x]]
  <2>1. e.accounts \in Maps(Accounts, AccountRecords) /\ e.objects \in Maps(ObjIds, Nat)
        /\ e.ghosts \in Maps(ObjIds, BOOLEAN)
    BY <1>10 DEF Dbs, Accts
  <2> QED BY <2>1, MapFacts
<1>22. Merged(parent.accounts, a) = e.accounts
  <2>1. PICK f : f = parent.accounts
    OBVIOUS
  <2>2. PICK g : g = e.accounts
    OBVIOUS
  <2>3. /\ g = [x \in DOMAIN g |-> g[x]] /\ DOMAIN f \subseteq DOMAIN g /\ DOMAIN a = DOMAIN gs
        /\ \A p \in DOMAIN gs : a[p] = Only(g, K[p])
    BY <1>10, <1>20, <1>21, <2>1, <2>2
  <2>4. \A x \in DOMAIN g : (\A p \in DOMAIN gs : x \notin K[p]) => x \in DOMAIN f /\ g[x] = f[x]
    BY <1>16, <2>1, <2>2
  <2>5. \A p, q \in DOMAIN gs : p # q => K[p] \cap K[q] = {}
    BY <1>14
  <2>6. Merged(f, a) = g
    BY <1>5, <1>15, <2>3, <2>4, <2>5, MergedIs
  <2> QED BY <2>1, <2>2, <2>6
<1>23. Merged(parent.objects, b) = e.objects
  <2>1. PICK f : f = parent.objects
    OBVIOUS
  <2>2. PICK g : g = e.objects
    OBVIOUS
  <2>3. /\ g = [x \in DOMAIN g |-> g[x]] /\ DOMAIN f \subseteq DOMAIN g /\ DOMAIN b = DOMAIN gs
        /\ \A p \in DOMAIN gs : b[p] = Only(g, K[p])
    BY <1>10, <1>20, <1>21, <2>1, <2>2
  <2>4. \A x \in DOMAIN g : (\A p \in DOMAIN gs : x \notin K[p]) => x \in DOMAIN f /\ g[x] = f[x]
    BY <1>16, <2>1, <2>2
  <2>5. \A p, q \in DOMAIN gs : p # q => K[p] \cap K[q] = {}
    BY <1>14
  <2>6. Merged(f, b) = g
    BY <1>5, <1>15, <2>3, <2>4, <2>5, MergedIs
  <2> QED BY <2>1, <2>2, <2>6
<1>24. Merged(parent.ghosts, c) = e.ghosts
  <2>1. PICK f : f = parent.ghosts
    OBVIOUS
  <2>2. PICK g : g = e.ghosts
    OBVIOUS
  <2>3. /\ g = [x \in DOMAIN g |-> g[x]] /\ DOMAIN f \subseteq DOMAIN g /\ DOMAIN c = DOMAIN gs
        /\ \A p \in DOMAIN gs : c[p] = Only(g, K[p])
    BY <1>10, <1>20, <1>21, <2>1, <2>2
  <2>4. \A x \in DOMAIN g : (\A p \in DOMAIN gs : x \notin K[p]) => x \in DOMAIN f /\ g[x] = f[x]
    BY <1>16, <2>1, <2>2
  <2>5. \A p, q \in DOMAIN gs : p # q => K[p] \cap K[q] = {}
    BY <1>14
  <2>6. Merged(f, c) = g
    BY <1>5, <1>15, <2>3, <2>4, <2>5, MergedIs
  <2> QED BY <2>1, <2>2, <2>6
<1>25. state' = [state EXCEPT !.accounts = Merged(@, a), !.objects = Merged(@, b), !.ghosts = Merged(@, c)]
  BY <1>17, <1>18, <1>19, Zenon DEF MergeOverlays
<1>26. state' = e
  <2>1. parent = [accounts |-> parent.accounts, objects |-> parent.objects, ghosts |-> parent.ghosts,
                  stakes |-> parent.stakes]
    BY <1>2, Shapes
  <2>2. e = [accounts |-> e.accounts, objects |-> e.objects, ghosts |-> e.ghosts, stakes |-> e.stakes]
    BY <1>10, Shapes
  <2>3. state' = [accounts |-> Merged(parent.accounts, a), objects |-> Merged(parent.objects, b),
                  ghosts |-> Merged(parent.ghosts, c), stakes |-> parent.stakes]
    BY <1>2, <1>25, <2>1
  <2> QED BY <1>10, <1>22, <1>23, <1>24, <2>2, <2>3
<1>27. PICK w : w = G[N].ok
  OBVIOUS
<1>28. w = [i \in DOMAIN w |-> w[i]]
  <2>1. G[N] \in Accs(N, DOMAIN gs)
    BY <1>6, <1>7 DEF IsRun
  <2>2. w \in Maps(1 .. N, BOOLEAN)
    BY <1>27, <2>1 DEF Accs
  <2> QED BY <2>2, MapFacts
<1>29. outcomes = [i \in DOMAIN outcomes |-> outcomes[i]] /\ \A i \in DOMAIN outcomes : outcomes[i] = w[i]
  BY <1>2, <1>3, <1>6, <1>7, <1>27 DEF Running
<1>30. DOMAIN outcomes = DOMAIN w
  <2>1. \A i : i \in DOMAIN outcomes <=> \E p \in DOMAIN gs : i \in gs[p]
    BY <1>1, <1>2, <1>4 DEF Running
  <2>2. \A i : i \in DOMAIN w <=> \E p \in DOMAIN gs : i \in gs[p]
    BY <1>5, <1>6, <1>10, <1>27 DEF Split
  <2> QED BY <2>1, <2>2
<1>31. outcomes = w
  BY <1>28, <1>29, <1>30
<1> QED BY <1>6, <1>8, <1>26, <1>27, <1>31

\* No nonce is used twice.
Once(outs, txs) ==
  \A i, j \in DOMAIN outs :
    outs[i] /\ outs[j] /\ i # j /\ txs[i].kind \in CountedKinds /\ txs[j].kind \in CountedKinds
      => <<txs[i].from, txs[i].nonce>> # <<txs[j].from, txs[j].nonce>>

\* The nonces of outcomes of the run.
LEMMA RunOnce ==
  ASSUME NEW txs \in Seq(Txs), NEW d \in Dbs, NEW gs, Split(gs, txs), NEW G, IsRun(G, txs, d, gs),
         NEW outs, \A i \in DOMAIN outs : i \in DOMAIN G[Len(txs)].ok /\ outs[i] = G[Len(txs)].ok[i]
  PROVE  /\ Once(outs, txs)
         /\ \A i \in DOMAIN outs : outs[i] /\ txs[i].kind \in CountedKinds =>
              txs[i].nonce < Account(G[Len(txs)].state, txs[i].from).nonce
<1>1. PICK N \in Nat : N = Len(txs) /\ N \in 0 .. Len(txs)
  OBVIOUS
<1>2. PICK e : e = G[N]
  OBVIOUS
<1>3. RunDone(d, e, txs, N)
  BY <1>1, <1>2, RunFacts
<1>4. ASSUME NEW i \in DOMAIN outs, txs[i].kind \in CountedKinds
      PROVE  txs[i].kind \in OverlayNonces /\ i \in DOMAIN e.ok /\ outs[i] = e.ok[i]
  <2>1. i \in DOMAIN e.ok /\ outs[i] = e.ok[i]
    BY <1>1, <1>2
  <2>2. txs[i].kind \notin SerialKinds
    BY <1>3, <2>1 DEF RunDone
  <2>3. txs[i].kind \in OverlayNonces
    BY <1>4, <2>2 DEF CountedKinds, OverlayNonces, SerialKinds
  <2> QED BY <2>1, <2>3
<1>5. Once(outs, txs)
  <2> SUFFICES ASSUME NEW i \in DOMAIN outs, NEW j \in DOMAIN outs, outs[i], outs[j], i # j,
                      txs[i].kind \in CountedKinds, txs[j].kind \in CountedKinds
               PROVE  <<txs[i].from, txs[i].nonce>> # <<txs[j].from, txs[j].nonce>>
    BY DEF Once
  <2>1. /\ txs[i].kind \in OverlayNonces /\ i \in DOMAIN e.ok /\ e.ok[i]
        /\ txs[j].kind \in OverlayNonces /\ j \in DOMAIN e.ok /\ e.ok[j]
    BY <1>4
  <2> QED BY <1>3, <2>1 DEF RunDone
<1>6. ASSUME NEW i \in DOMAIN outs, outs[i], txs[i].kind \in CountedKinds
      PROVE  txs[i].nonce < Account(e.state, txs[i].from).nonce
  <2>1. txs[i].kind \in OverlayNonces /\ i \in DOMAIN e.ok /\ e.ok[i]
    BY <1>4, <1>6
  <2> QED BY <1>3, <2>1 DEF RunDone
<1> QED BY <1>1, <1>2, <1>5, <1>6

\* The property as a predicate of the outcomes and the block.
LEMMA OnceIs ==
  NonceUsedOnce <=> Once(outcomes, block)
<1>1. \A i, j : {block[i].kind, block[j].kind} \subseteq CountedKinds
                  <=> block[i].kind \in CountedKinds /\ block[j].kind \in CountedKinds
  OBVIOUS
<1>2. NonceKinds \ NonceUnchecked = CountedKinds
  BY DEF NonceKinds, NonceUnchecked, Kinds, NeverExecuted, SerialKinds, CountedKinds
<1> QED BY <1>1, <1>2 DEF NonceUsedOnce, OncePerNonce, Once

\* The end of the parallel stage.
LEMMA MergeFinishes ==
  ASSUME ExecutorInv, MergeOverlays
  PROVE  /\ Finishing' /\ stage' = "serial" /\ state' \in Dbs /\ Supply(state') <= Supply(parent)
         /\ state' = Sequential.state /\ outcomes = Sequential.ok
         /\ Once(outcomes, block)
         /\ totals'.gas \in Nat /\ totals'.gas <= block_gas_limit
         /\ UNCHANGED <<block, parent, number, outcomes, parts>>
<1>1. /\ stage = "parallel" /\ stage' = "serial"
      /\ UNCHANGED <<block, parent, number, outcomes, parts, serial>>
  BY DEF MergeOverlays
<1>2. Running /\ block \in Seq(Txs) /\ parent \in Dbs
  BY <1>1 DEF ExecutorInv
<1>3. Split(Groups(parts), block) /\ IsFiniteSet(DOMAIN parts)
  BY <1>2 DEF Running
<1>4. PICK G : IsRun(G, block, parent, Groups(parts)) /\ Sequential = G[Len(block)]
  BY <1>2, <1>3, TheRun
<1>5. state' = G[Len(block)].state /\ outcomes = G[Len(block)].ok
  BY <1>4, MergedRun
<1>6. PICK N \in Nat : N = Len(block) /\ N \in 0 .. Len(block)
  BY <1>2
<1>7. RunDone(parent, G[N], block, N)
  BY <1>2, <1>3, <1>4, <1>6, RunFacts
<1>8. state' \in Dbs /\ Supply(state') <= Supply(parent)
  BY <1>5, <1>6, <1>7 DEF RunDone
<1>9. DOMAIN outcomes = {i \in 1 .. N : block[i].kind \notin SerialKinds}
  BY <1>5, <1>6, <1>7 DEF RunDone
<1>10. /\ Once(outcomes, block)
       /\ \A i \in DOMAIN outcomes : outcomes[i] /\ block[i].kind \in CountedKinds =>
            block[i].nonce < Account(state', block[i].from).nonce
  <2>1. \A i \in DOMAIN outcomes : i \in DOMAIN G[Len(block)].ok /\ outcomes[i] = G[Len(block)].ok[i]
    BY <1>5
  <2> QED BY <1>2, <1>3, <1>4, <1>5, <2>1, RunOnce
<1>11. \A i \in serial : i \in 1 .. Len(block) /\ block[i].kind \in SerialKinds
  BY <1>2 DEF Running
<1>12. ASSUME NEW p \in DOMAIN parts PROVE parts[p].group \cap serial = {}
  <2>1. \A i \in parts[p].group : block[i].kind \notin SerialKinds
    BY <1>3 DEF Split, Groups
  <2> QED BY <1>11, <2>1
<1>13. Finishing'
  <2>1. \A i \in serial : i \notin DOMAIN outcomes
    BY <1>9, <1>11
  <2>2. DOMAIN outcomes \subseteq 1 .. Len(block)
    BY <1>6, <1>9
  <2> QED BY <1>1, <1>10, <1>11, <1>12, <2>1, <2>2 DEF Finishing
<1>14. totals'.gas \in Nat /\ totals'.gas <= block_gas_limit
  <2>1. PICK f : f = [p \in DOMAIN parts |-> parts[p].gas_used]
    OBVIOUS
  <2>2. PICK n : n = Cardinality(DOMAIN parts)
    OBVIOUS
  <2>3. PICK c : c = PerPartitionGas(n)
    OBVIOUS
  <2>4. n \in Nat /\ c \in Nat /\ n * c <= block_gas_limit /\ block_gas_limit \in Nat
    BY <1>3, <2>2, <2>3, FS_CardinalityType, BudgetType
  <2>5. ASSUME NEW p \in DOMAIN parts PROVE f[p] \in Nat /\ f[p] <= c
    <3>1. PartOk(parts[p], c)
      BY <1>2, <2>2, <2>3 DEF Running
    <3> QED BY <2>1, <3>1 DEF PartOk
  <2>6. SumOver(f, DOMAIN parts) \in Nat /\ SumOver(f, DOMAIN parts) <= n * c
    BY <1>3, <2>2, <2>4, <2>5, SumBounded
  <2>7. totals.gas = 0
    BY <1>2 DEF Running
  <2>8. totals'.gas = totals.gas + SumOver(f, DOMAIN parts)
    BY <2>1 DEF MergeOverlays
  <2>9. n * c \in Nat
    BY <2>4
  <2> QED BY <2>4, <2>6, <2>7, <2>8, <2>9
<1> QED BY <1>1, <1>4, <1>5, <1>8, <1>10, <1>13, <1>14

-----------------------------------------------------------------------------
(* The serial stage.                                                       *)

SetStakes(d, m) == [d EXCEPT !.stakes = m]

\* What replacing the stake records changes.
LEMMA SetStakesFacts ==
  ASSUME NEW d \in Dbs, NEW m \in Stakes
  PROVE  /\ SetStakes(d, m) \in Dbs /\ SetStakes(d, m).accounts = d.accounts
         /\ SetStakes(d, m).stakes = m
         /\ \A a : Account(SetStakes(d, m), a) = Account(d, a)
         /\ Supply(SetStakes(d, m)) = (Supply(d) - Staked(d.stakes)) + Staked(m)
<1>1. PICK e : e = SetStakes(d, m)
  OBVIOUS
<1>2. e \in Dbs /\ e.accounts = d.accounts /\ e.stakes = m
  BY <1>1 DEF SetStakes, Dbs
<1>3. \A a : Account(e, a) = Account(d, a)
  BY <1>2 DEF Account
<1>4. /\ Supply(d) = Holdings(d.accounts) + Staked(d.stakes)
      /\ Holdings(d.accounts) \in Nat /\ Staked(d.stakes) \in Nat
  BY SupplyIs
<1>5. Supply(e) = Holdings(d.accounts) + Staked(m) /\ Staked(m) \in Nat
  BY <1>2, SupplyIs
<1>6. Supply(e) = (Supply(d) - Staked(d.stakes)) + Staked(m)
  BY <1>4, <1>5
<1> QED BY <1>1, <1>2, <1>3, <1>6

\* The stakes when one of them starts to unbond, and when one is claimed.
LEMMA StakeChanges ==
  ASSUME NEW m \in Stakes, NEW id \in DOMAIN m, NEW u \in Nat
  PROVE  /\ [m EXCEPT ![id].unbonding = u] \in Stakes
         /\ Staked([m EXCEPT ![id].unbonding = u]) = Staked(m)
         /\ WithoutStake(m, id) \in Stakes
         /\ Staked(WithoutStake(m, id)) = Staked(m) - m[id].amount
         /\ m[id] \in StakeRecords /\ Staked(m) \in Int
<1>0. IsFiniteSet(StakeIds)
  BY ExecutorAssumption
<1>1. PICK D : D = DOMAIN m
  OBVIOUS
<1>2. /\ D \subseteq StakeIds /\ m \in [D -> StakeRecords] /\ id \in D
      /\ \A x \in D : m[x] \in StakeRecords
  BY <1>1, MapFacts DEF Stakes
<1>3. IsFiniteSet(D)
  BY <1>0, <1>2, FS_Subset
<1>4. \A x \in D : m[x].amount \in Nat
  BY <1>2 DEF StakeRecords
<1>5. PICK n : n = [m EXCEPT ![id].unbonding = u]
  OBVIOUS
<1>6. /\ DOMAIN n = D /\ n \in [D -> StakeRecords]
      /\ \A x \in D : n[x].amount = m[x].amount
  <2>1. n = [m EXCEPT ![id] = [m[id] EXCEPT !.unbonding = u]]
    BY <1>5
  <2>2. PICK v : v = [m[id] EXCEPT !.unbonding = u]
    OBVIOUS
  <2>3. v \in StakeRecords /\ v.amount = m[id].amount
    BY <1>2, <2>2 DEF StakeRecords
  <2>4. n = [m EXCEPT ![id] = v]
    BY <2>1, <2>2
  <2>5. DOMAIN n = D /\ n \in [D -> StakeRecords]
    BY <1>2, <2>3, <2>4
  <2>6. \A x \in D : x # id => n[x] = m[x]
    BY <1>2, <2>4
  <2>7. n[id] = v
    BY <1>2, <2>4
  <2> QED BY <2>3, <2>5, <2>6, <2>7
<1>7. n \in Stakes
  BY <1>2, <1>6 DEF Stakes, Maps
<1> DEFINE f == [x \in DOMAIN m |-> m[x].amount]
           g == [x \in DOMAIN n |-> n[x].amount]
<1>8. Staked(m) = SumOver(f, D) /\ Staked(n) = SumOver(g, D)
  BY <1>1, <1>6 DEF Staked
<1>9. \A x \in D : f[x] = m[x].amount /\ g[x] = m[x].amount /\ f[x] \in Nat
  BY <1>1, <1>4, <1>6
<1>10. PICK k : k = WithoutStake(m, id)
  OBVIOUS
<1>11. k = Less(m, {id})
  BY <1>10 DEF WithoutStake
<1>12. k \in Stakes
  BY <1>11, MapFacts DEF Stakes
<1>13. DOMAIN k = D \ {id} /\ \A x \in D \ {id} : k[x] = m[x]
  BY <1>1, <1>11 DEF Less
<1> DEFINE h == [x \in DOMAIN k |-> k[x].amount]
<1>14. Staked(k) = SumOver(h, D \ {id})
  BY <1>13 DEF Staked
<1>15. \A x \in D \ {id} : h[x] = f[x]
  BY <1>9, <1>13
<1> HIDE DEF f, g, h
<1>16. Staked(n) = Staked(m)
  BY <1>3, <1>8, <1>9, SumCongruent
<1>17. SumOver(h, D \ {id}) = SumOver(f, D \ {id})
  <2>1. IsFiniteSet(D \ {id})
    BY <1>3, FS_Subset
  <2> QED BY <1>15, <2>1, SumCongruent
<1>18. SumOver(f, D) = f[id] + SumOver(f, D \ {id})
  BY <1>2, <1>3, <1>9, SumOfElement
<1>19. SumOver(f, D) \in Nat /\ SumOver(f, D \ {id}) \in Nat /\ f[id] \in Nat /\ f[id] = m[id].amount
  <2>1. IsFiniteSet(D \ {id})
    BY <1>3, FS_Subset
  <2> QED BY <1>2, <1>3, <1>9, <2>1, SumType
<1>20. Staked(k) = Staked(m) - m[id].amount
  BY <1>8, <1>14, <1>17, <1>18, <1>19
<1> QED BY <1>1, <1>2, <1>5, <1>7, <1>8, <1>10, <1>12, <1>16, <1>19, <1>20

Counted(acct) == [acct EXCEPT !.nonce = @ + 1]
Repaid(acct, amount) == [acct EXCEPT !.balance = @ + amount, !.nonce = @ + 1]
Spent(acct, tx) == [acct EXCEPT !.balance = @ - tx.amount]

\* The account records that the arms of the serial loop write.
LEMMA SerialRecords ==
  ASSUME NEW acct \in AccountRecords, NEW amount \in Nat, NEW tx \in Txs
  PROVE  /\ Counted(acct) \in AccountRecords /\ Counted(acct).nonce = acct.nonce + 1
         /\ Worth(Counted(acct)) = Worth(acct)
         /\ Repaid(acct, amount) \in AccountRecords /\ Repaid(acct, amount).nonce = acct.nonce + 1
         /\ Worth(Repaid(acct, amount)) = Worth(acct) + amount
         /\ acct.balance >= tx.amount =>
              /\ Spent(acct, tx) \in AccountRecords /\ Spent(acct, tx).nonce = acct.nonce
              /\ Worth(Spent(acct, tx)) = Worth(acct) - tx.amount
         /\ Worth(Credited(acct, tx)) = Worth(acct) + tx.amount
         /\ Worth(acct) \in Nat /\ acct.nonce \in Nat
<1>1. tx.amount \in Nat
  BY TxFields
<1>2. Counted(acct) \in AccountRecords /\ Counted(acct).nonce = acct.nonce + 1 /\ Worth(Counted(acct)) = Worth(acct)
  BY DEF Counted, Worth, AccountRecords
<1>3. /\ Repaid(acct, amount) \in AccountRecords /\ Repaid(acct, amount).nonce = acct.nonce + 1
      /\ Worth(Repaid(acct, amount)) = Worth(acct) + amount
  <2>1. PICK y : y = Repaid(acct, amount)
    OBVIOUS
  <2>2. acct.balance \in Nat /\ acct.nonce \in Nat /\ acct.deposit \in Nat
    BY DEF AccountRecords
  <2>3. y = [balance |-> acct.balance + amount, nonce |-> acct.nonce + 1, deposit |-> acct.deposit]
    BY <2>1 DEF Repaid, AccountRecords
  <2>4. y.balance = acct.balance + amount /\ y.nonce = acct.nonce + 1 /\ y.deposit = acct.deposit
    BY <2>3
  <2>5. y \in AccountRecords
    BY <2>2, <2>3 DEF AccountRecords
  <2> QED BY <2>1, <2>2, <2>4, <2>5 DEF Worth
<1>4. ASSUME acct.balance >= tx.amount
      PROVE  /\ Spent(acct, tx) \in AccountRecords /\ Spent(acct, tx).nonce = acct.nonce
             /\ Worth(Spent(acct, tx)) = Worth(acct) - tx.amount
  BY <1>1, <1>4 DEF Spent, Worth, AccountRecords
<1>5. Worth(Credited(acct, tx)) = Worth(acct) + tx.amount
  BY <1>1 DEF Credited, Worth, AccountRecords
<1>6. Worth(acct) \in Nat /\ acct.nonce \in Nat
  BY DEF Worth, AccountRecords
<1> QED BY <1>2, <1>3, <1>4, <1>5, <1>6

\* What an arm of the serial loop leaves.
ArmDone(d, tx, r) ==
  /\ r.state \in Dbs /\ r.ok \in BOOLEAN /\ Supply(r.state) <= Supply(d)
  /\ \A a : Account(r.state, a).nonce >= Account(d, a).nonce
  /\ r.ok /\ tx.kind \in CountedKinds => /\ Account(d, tx.from).nonce = tx.nonce
                                        /\ Account(r.state, tx.from).nonce = tx.nonce + 1

\* An arm that fails without a trace.
LEMMA ArmRefused ==
  ASSUME NEW d \in Dbs, NEW tx, NEW r, r.state = d, ~r.ok, r.ok \in BOOLEAN
  PROVE  ArmDone(d, tx, r)
<1>1. Supply(d) <= Supply(d)
  BY SupplyIs
<1>2. \A a : Account(d, a).nonce \in Nat
  BY AccountType DEF Dbs, AccountRecords
<1> QED BY <1>1, <1>2 DEF ArmDone

\* The outcomes of an arm.
Refuses(r, d) == r.state = d /\ r.ok \in BOOLEAN /\ ~r.ok
Accepts(r, d) == r.state = d /\ r.ok \in BOOLEAN /\ r.ok

\* An arm refuses or accepts.
LEMMA OutcomeIs ==
  ASSUME NEW d
  PROVE  Refuses(Outcome(FALSE, d), d) /\ Accepts(Outcome(TRUE, d), d)
BY DEF Outcome, Refuses, Accepts

\* The arm of an exit ...
LEMMA ExitArm ==
  ASSUME NEW d \in Dbs, NEW tx \in Txs, tx.kind = "ValidatorExit", number \in Nat
  PROVE  ArmDone(d, tx, ValidatorExit(d, tx))
<1>1. PICK r : r = ValidatorExit(d, tx)
  OBVIOUS
<1>2. PICK acct : acct = Account(d, tx.from)
  OBVIOUS
<1>3. acct \in AccountRecords /\ tx.from \in Accounts /\ tx.amount \in Nat /\ tx.nonce \in Nat
  BY <1>2, AccountType, TxFields DEF Dbs
<1>4. PICK next : next = Store(d, tx.from, Counted(acct))
  OBVIOUS
<1>5. PICK u : u = number + UNBONDING_EPOCHS
  OBVIOUS
<1>6. u \in Nat
  BY <1>5, ExecutorAssumption
<1>7. \/ Refuses(r, d)
      \/ acct.nonce = tx.nonce /\ Refuses(r, next)
      \/ /\ acct.nonce = tx.nonce /\ tx.id \in DOMAIN d.stakes
         /\ Accepts(r, [next EXCEPT !.stakes[tx.id].unbonding = u])
  <2> DEFINE exits == /\ tx.id \in DOMAIN d.stakes /\ d.stakes[tx.id].owner = tx.from
                      /\ d.stakes[tx.id].unbonding = 0
  <2>1. CASE acct.nonce # tx.nonce
    <3>1. r = Outcome(FALSE, d)
      BY <1>1, <1>2, <2>1, Zenon DEF ValidatorExit
    <3> QED BY <3>1, OutcomeIs
  <2>2. CASE acct.nonce = tx.nonce /\ ~exits
    <3>1. r = Outcome(FALSE, next)
      BY <1>1, <1>2, <1>4, <2>2, Zenon DEF ValidatorExit, Counted
    <3> QED BY <2>2, <3>1, OutcomeIs
  <2>3. CASE acct.nonce = tx.nonce /\ exits
    <3>1. PICK e : e = [next EXCEPT !.stakes[tx.id].unbonding = u]
      OBVIOUS
    <3>2. r = Outcome(TRUE, e)
      BY <1>1, <1>2, <1>4, <1>5, <2>3, <3>1, Zenon DEF ValidatorExit, Counted
    <3> QED BY <2>3, <3>1, <3>2, OutcomeIs
  <2> QED BY <2>1, <2>2, <2>3
<1>8. PICK n : n = Counted(acct)
  OBVIOUS
<1>9. n \in AccountRecords /\ n.nonce = acct.nonce + 1 /\ Worth(n) = Worth(acct) /\ Worth(acct) \in Nat
      /\ acct.nonce \in Nat
  BY <1>3, <1>8, SerialRecords
<1>10. /\ next \in Dbs /\ next.stakes = d.stakes
       /\ \A b : Account(next, b) = IF b = tx.from THEN n ELSE Account(d, b)
  BY <1>3, <1>4, <1>8, <1>9, StoreFacts
<1>11. Supply(next) = Supply(d) /\ Supply(d) \in Int
  <2>1. Supply(next) = (Supply(d) - Worth(acct)) + Worth(n) /\ Supply(d) \in Int
    BY <1>2, <1>3, <1>4, <1>8, <1>9, StoreSupply
  <2> QED BY <1>9, <2>1
<1>12. \A a : Account(d, a).nonce \in Nat
  BY AccountType DEF Dbs, AccountRecords
<1>13. \A a : Account(next, a).nonce >= Account(d, a).nonce
  BY <1>2, <1>9, <1>10, <1>12
<1>14. CASE Refuses(r, d)
  BY <1>1, <1>14, ArmRefused DEF Refuses
<1>15. CASE Refuses(r, next)
  BY <1>1, <1>10, <1>11, <1>13, <1>15 DEF Refuses, ArmDone
<1>16. CASE /\ acct.nonce = tx.nonce /\ tx.id \in DOMAIN d.stakes
            /\ Accepts(r, [next EXCEPT !.stakes[tx.id].unbonding = u])
  <2>1. PICK id : id = tx.id
    OBVIOUS
  <2>2. PICK m : m = [d.stakes EXCEPT ![id].unbonding = u]
    OBVIOUS
  <2>3. PICK e : e = SetStakes(next, m)
    OBVIOUS
  <2>4. next = [accounts |-> next.accounts, objects |-> next.objects, ghosts |-> next.ghosts, stakes |-> next.stakes]
    BY <1>10, Shapes
  <2>5. [next EXCEPT !.stakes[tx.id].unbonding = u] = e
    <3>1. [next EXCEPT !.stakes[id].unbonding = u] = [next EXCEPT !.stakes = [next.stakes EXCEPT ![id].unbonding = u]]
      BY <2>4
    <3> QED BY <1>10, <2>1, <2>2, <2>3, <3>1 DEF SetStakes
  <2>6. r.state = e /\ r.ok \in BOOLEAN /\ r.ok
    BY <1>16, <2>5 DEF Accepts
  <2>7. d.stakes \in Stakes /\ id \in DOMAIN d.stakes
    BY <1>16, <2>1 DEF Dbs
  <2>8. m \in Stakes /\ Staked(m) = Staked(d.stakes) /\ Staked(d.stakes) \in Int
    BY <1>6, <2>2, <2>7, StakeChanges
  <2>9. /\ e \in Dbs /\ \A a : Account(e, a) = Account(next, a)
        /\ Supply(e) = (Supply(next) - Staked(next.stakes)) + Staked(m)
    BY <1>10, <2>3, <2>8, SetStakesFacts
  <2>10. Supply(e) <= Supply(d)
    BY <1>10, <1>11, <2>8, <2>9
  <2>11. \A a : Account(e, a).nonce >= Account(d, a).nonce
    BY <1>13, <2>9
  <2>12. Account(d, tx.from).nonce = tx.nonce /\ Account(e, tx.from).nonce = tx.nonce + 1
    BY <1>2, <1>9, <1>10, <1>16, <2>9
  <2> QED BY <1>1, <2>6, <2>9, <2>10, <2>11, <2>12 DEF ArmDone
<1> QED BY <1>7, <1>14, <1>15, <1>16

\* ... of a claim ...
LEMMA ClaimArm ==
  ASSUME NEW d \in Dbs, NEW tx \in Txs, tx.kind = "ValidatorClaimStake", number \in Nat
  PROVE  ArmDone(d, tx, ValidatorClaimStake(d, tx))
<1>1. PICK r : r = ValidatorClaimStake(d, tx)
  OBVIOUS
<1>2. PICK acct : acct = Account(d, tx.from)
  OBVIOUS
<1>3. acct \in AccountRecords /\ tx.from \in Accounts /\ tx.nonce \in Nat
  BY <1>2, AccountType, TxFields DEF Dbs
<1>4. PICK id : id = tx.id
  OBVIOUS
<1>5. PICK v : v = d.stakes[id].amount
  OBVIOUS
<1>6. PICK n : n = Repaid(acct, v)
  OBVIOUS
<1>7. PICK next : next = Store(d, tx.from, n)
  OBVIOUS
<1>8. \/ Refuses(r, d)
      \/ /\ acct.nonce = tx.nonce /\ id \in DOMAIN d.stakes
         /\ Accepts(r, [next EXCEPT !.stakes = WithoutStake(@, id)])
  <2> DEFINE claims == /\ tx.id \in DOMAIN d.stakes /\ d.stakes[tx.id].owner = tx.from
                       /\ d.stakes[tx.id].unbonding \in 1 .. number
                       /\ acct.nonce = tx.nonce
  <2>1. CASE ~claims
    <3>1. r = Outcome(FALSE, d)
      BY <1>1, <1>2, <2>1, Zenon DEF ValidatorClaimStake
    <3> QED BY <3>1, OutcomeIs
  <2>2. CASE claims
    <3>1. PICK e : e = [next EXCEPT !.stakes = WithoutStake(@, id)]
      OBVIOUS
    <3>2. r = Outcome(TRUE, e)
      BY <1>1, <1>2, <1>4, <1>5, <1>6, <1>7, <2>2, <3>1, Zenon DEF ValidatorClaimStake, Repaid
    <3> QED BY <1>4, <2>2, <3>1, <3>2, OutcomeIs
  <2> QED BY <2>1, <2>2
<1>9. CASE Refuses(r, d)
  BY <1>1, <1>9, ArmRefused DEF Refuses
<1>10. CASE /\ acct.nonce = tx.nonce /\ id \in DOMAIN d.stakes
            /\ Accepts(r, [next EXCEPT !.stakes = WithoutStake(@, id)])
  <2>1. d.stakes \in Stakes
    BY DEF Dbs
  <2>2. PICK m : m = WithoutStake(d.stakes, id)
    OBVIOUS
  <2>3. /\ m \in Stakes /\ Staked(m) = Staked(d.stakes) - v
        /\ d.stakes[id] \in StakeRecords /\ Staked(d.stakes) \in Int
    <3>1. 0 \in Nat
      OBVIOUS
    <3> QED BY <1>5, <1>10, <2>1, <2>2, <3>1, StakeChanges
  <2>4. v \in Nat
    BY <1>5, <2>3 DEF StakeRecords
  <2>5. n \in AccountRecords /\ n.nonce = acct.nonce + 1 /\ Worth(n) = Worth(acct) + v /\ Worth(acct) \in Nat
        /\ acct.nonce \in Nat
    BY <1>3, <1>6, <2>4, SerialRecords
  <2>6. /\ next \in Dbs /\ next.stakes = d.stakes
        /\ \A b : Account(next, b) = IF b = tx.from THEN n ELSE Account(d, b)
    BY <1>3, <1>7, <2>5, StoreFacts
  <2>7. Supply(next) = (Supply(d) - Worth(acct)) + Worth(n) /\ Supply(d) \in Int
    BY <1>2, <1>3, <1>7, <2>5, StoreSupply
  <2>8. PICK e : e = SetStakes(next, m)
    OBVIOUS
  <2>9. [next EXCEPT !.stakes = WithoutStake(@, id)] = e
    <3>1. next = [accounts |-> next.accounts, objects |-> next.objects, ghosts |-> next.ghosts,
                  stakes |-> next.stakes]
      BY <2>6, Shapes
    <3>2. [next EXCEPT !.stakes = WithoutStake(@, id)] = [next EXCEPT !.stakes = WithoutStake(next.stakes, id)]
      BY <3>1
    <3> QED BY <2>2, <2>6, <2>8, <3>2 DEF SetStakes
  <2>10. r.state = e /\ r.ok \in BOOLEAN /\ r.ok
    BY <1>10, <2>9 DEF Accepts
  <2>11. /\ e \in Dbs /\ \A a : Account(e, a) = Account(next, a)
         /\ Supply(e) = (Supply(next) - Staked(next.stakes)) + Staked(m)
    BY <2>3, <2>6, <2>8, SetStakesFacts
  <2>12. Supply(e) <= Supply(d)
    BY <2>3, <2>4, <2>5, <2>6, <2>7, <2>11
  <2>13. \A a : Account(d, a).nonce \in Nat
    BY AccountType DEF Dbs, AccountRecords
  <2>14. \A a : Account(e, a).nonce >= Account(d, a).nonce
    BY <1>2, <2>5, <2>6, <2>11, <2>13
  <2>15. Account(d, tx.from).nonce = tx.nonce /\ Account(e, tx.from).nonce = tx.nonce + 1
    BY <1>2, <1>10, <2>5, <2>6, <2>11
  <2> QED BY <1>1, <2>10, <2>11, <2>12, <2>14, <2>15 DEF ArmDone
<1> QED BY <1>8, <1>9, <1>10

\* ... and of a refund.
LEMMA RefundArm ==
  ASSUME NEW d \in Dbs, NEW tx \in Txs, tx.kind = "Refund"
  PROVE  ArmDone(d, tx, Refund(d, tx))
<1>1. PICK r : r = Refund(d, tx)
  OBVIOUS
<1>2. PICK acct : acct = Account(d, tx.from)
  OBVIOUS
<1>3. PICK victim : victim = Account(d, tx.to)
  OBVIOUS
<1>4. /\ acct \in AccountRecords /\ victim \in AccountRecords /\ tx.from \in Accounts /\ tx.to \in Accounts
      /\ tx.amount \in Nat
  BY <1>2, <1>3, AccountType, TxFields DEF Dbs
<1>5. PICK s : s = Spent(acct, tx)
  OBVIOUS
<1>6. PICK c : c = Credited(victim, tx)
  OBVIOUS
<1>7. PICK mid : mid = Store(d, tx.from, s)
  OBVIOUS
<1>8. PICK e : e = Store(mid, tx.to, c)
  OBVIOUS
<1>9. \/ Refuses(r, d)
      \/ tx.from # tx.to /\ ~(acct.balance < tx.amount) /\ Accepts(r, e)
  <2> DEFINE refused == tx.from = tx.to \/ tx.amount = 0 \/ acct.balance < tx.amount
  <2>1. CASE refused
    <3>1. r = Outcome(FALSE, d)
      BY <1>1, <1>2, <2>1, Zenon DEF Refund
    <3> QED BY <3>1, OutcomeIs
  <2>2. CASE ~refused
    <3>1. r = Outcome(TRUE, e)
      BY <1>1, <1>2, <1>3, <1>5, <1>6, <1>7, <1>8, <2>2, Zenon DEF Refund, Spent, Credited
    <3> QED BY <2>2, <3>1, OutcomeIs
  <2> QED BY <2>1, <2>2
<1>10. CASE Refuses(r, d)
  BY <1>1, <1>10, ArmRefused DEF Refuses
<1>11. CASE tx.from # tx.to /\ ~(acct.balance < tx.amount) /\ Accepts(r, e)
  <2>1. acct.balance >= tx.amount
    BY <1>4, <1>11 DEF AccountRecords
  <2>2. s \in AccountRecords /\ s.nonce = acct.nonce /\ Worth(s) = Worth(acct) - tx.amount /\ Worth(acct) \in Nat
    BY <1>4, <1>5, <2>1, SerialRecords
  <2>3. c \in AccountRecords /\ c.nonce = victim.nonce
    BY <1>4, <1>6, RecordFacts
  <2>4. Worth(c) = Worth(victim) + tx.amount /\ Worth(victim) \in Nat
    BY <1>4, <1>6, SerialRecords
  <2>5. /\ mid \in Dbs
        /\ \A b : Account(mid, b) = IF b = tx.from THEN s ELSE Account(d, b)
    <3>1. PICK f \in Accounts : f = tx.from
      BY <1>4
    <3>2. mid = Store(d, f, s)
      BY <1>7, <3>1
    <3>3. mid \in Dbs
      BY <2>2, <3>2, StoreFacts
    <3>4. \A b : Account(mid, b) = IF b = f THEN s ELSE Account(d, b)
      BY <2>2, <3>2, StoreFacts
    <3> QED BY <3>1, <3>3, <3>4
  <2>6. Supply(mid) = (Supply(d) - Worth(acct)) + Worth(s) /\ Supply(d) \in Int
    BY <1>2, <1>4, <1>7, <2>2, StoreSupply
  <2>7. Account(mid, tx.to) = victim
    BY <1>3, <1>11, <2>5
  <2>8. /\ e \in Dbs
        /\ \A b : Account(e, b) = IF b = tx.to THEN c ELSE Account(mid, b)
    <3>1. PICK f \in Accounts : f = tx.to
      BY <1>4
    <3>2. mid \in Dbs /\ e = Store(mid, f, c)
      BY <1>8, <2>5, <3>1
    <3>3. e \in Dbs
      BY <2>3, <3>2, StoreFacts
    <3>4. \A b : Account(e, b) = IF b = f THEN c ELSE Account(mid, b)
      BY <2>3, <3>2, StoreFacts
    <3> QED BY <3>1, <3>3, <3>4
  <2>9. Supply(e) = (Supply(mid) - Worth(victim)) + Worth(c) /\ Supply(mid) \in Int
    BY <1>4, <1>8, <2>3, <2>5, <2>7, StoreSupply
  <2>10. Supply(e) <= Supply(d)
    BY <1>4, <2>2, <2>4, <2>6, <2>9
  <2>11. \A a : Account(d, a).nonce \in Nat
    BY AccountType DEF Dbs, AccountRecords
  <2>12. \A a : Account(e, a).nonce = Account(d, a).nonce
    BY <1>2, <1>3, <2>2, <2>3, <2>5, <2>8
  <2>13. tx.kind \notin CountedKinds
    BY DEF CountedKinds
  <2>14. \A a : Account(e, a).nonce >= Account(d, a).nonce
    BY <2>11, <2>12
  <2> QED BY <1>1, <1>11, <2>8, <2>10, <2>13, <2>14 DEF Accepts, ArmDone
<1> QED BY <1>9, <1>10, <1>11

\* Every arm of the serial loop leaves a StateDB, creates no token, and uses up the
\* nonce of what it executes.
LEMMA SerialArmFacts ==
  ASSUME NEW d \in Dbs, NEW tx \in Txs, tx.kind \in SerialKinds, tx.kind # "DeployTemplate", number \in Nat
  PROVE  ArmDone(d, tx, SerialArm(d, tx))
<1>1. tx.kind \in {"ValidatorExit", "ValidatorClaimStake", "Refund"}
  BY DEF SerialKinds
<1>2. CASE tx.kind = "ValidatorExit"
  <2>1. SerialArm(d, tx) = ValidatorExit(d, tx)
    BY <1>2, Zenon DEF SerialArm
  <2> QED BY <1>2, <2>1, ExitArm
<1>3. CASE tx.kind = "ValidatorClaimStake"
  <2>1. SerialArm(d, tx) = ValidatorClaimStake(d, tx)
    BY <1>3 DEF SerialArm
  <2> QED BY <1>3, <2>1, ClaimArm
<1>4. CASE tx.kind = "Refund"
  <2>1. SerialArm(d, tx) = Refund(d, tx)
    BY <1>4 DEF SerialArm
  <2> QED BY <1>4, <2>1, RefundArm
<1> QED BY <1>1, <1>2, <1>3, <1>4

\* A transaction of the serial stage.
LEMMA SerialFinishes ==
  ASSUME ExecutorInv, stage = "serial", serial # {}, NEW ok \in BOOLEAN, SerialDone(ok), state' \in Dbs,
         \A a : Account(state', a).nonce >= Account(state, a).nonce,
         ok /\ block[Min(serial)].kind \in CountedKinds =>
           /\ Account(state, block[Min(serial)].from).nonce = block[Min(serial)].nonce
           /\ Account(state', block[Min(serial)].from).nonce = block[Min(serial)].nonce + 1
  PROVE  /\ Finishing' /\ Once(outcomes', block') /\ ParallelIsSequential'
         /\ UNCHANGED <<block, stage, number, parent>>
<1>1. PICK i : i = Min(serial)
  OBVIOUS
<1>2. Finishing /\ block \in Seq(Txs) /\ state \in Dbs /\ Once(outcomes, block)
  BY OnceIs DEF ExecutorInv
<1>3. /\ \A j \in serial : j \in 1 .. Len(block) /\ block[j].kind \in SerialKinds /\ j \notin DOMAIN outcomes
      /\ \A p \in DOMAIN parts : parts[p].group \cap serial = {}
      /\ DOMAIN outcomes \subseteq 1 .. Len(block)
  BY <1>2 DEF Finishing
<1>4. ASSUME NEW j \in DOMAIN outcomes, outcomes[j], block[j].kind \in CountedKinds
      PROVE  block[j].nonce < Account(state, block[j].from).nonce
  BY <1>2, <1>4 DEF Finishing
<1>5. serial \in SUBSET Nat
  BY <1>2, <1>3
<1>6. i \in serial /\ i \in 1 .. Len(block) /\ i \notin DOMAIN outcomes
  BY <1>1, <1>3, <1>5, MinIsLeast
<1>7. /\ serial' = serial \ {i} /\ UNCHANGED <<block, stage, parts, number, parent>>
  BY <1>1 DEF SerialDone
<1>8. PICK w : w = outcomes'
  OBVIOUS
<1>9. w = With(outcomes, i, ok)
  BY <1>1, <1>8 DEF SerialDone
<1>10. DOMAIN w = DOMAIN outcomes \cup {i}
  BY <1>9 DEF With
<1>11. \A j \in DOMAIN outcomes : w[j] = outcomes[j]
  BY <1>6, <1>9 DEF With
<1>12. w[i] = ok
  <2>1. PICK k : k = i
    OBVIOUS
  <2>2. w = With(outcomes, k, ok)
    BY <1>9, <2>1
  <2>3. w[k] = ok
    BY <2>2 DEF With
  <2> QED BY <2>1, <2>3, Zenon
<1> DEFINE Mark(s, j) == Account(s, block[j].from).nonce
<1>13. ASSUME NEW j PROVE Mark(state, j) \in Nat /\ Mark(state', j) \in Nat /\ Mark(state', j) >= Mark(state, j)
  <2>1. state.accounts \in Accts /\ state'.accounts \in Accts
    BY <1>2 DEF Dbs
  <2>2. Account(state, block[j].from) \in AccountRecords /\ Account(state', block[j].from) \in AccountRecords
    BY <2>1, AccountType
  <2> QED BY <2>2 DEF AccountRecords
<1>14. ASSUME NEW j \in 1 .. Len(block) PROVE block[j].nonce \in Nat
  <2>1. block[j] \in Txs
    BY <1>2
  <2> QED BY <2>1, TxFields
<1>15. ASSUME ok, block[i].kind \in CountedKinds
       PROVE  Mark(state, i) = block[i].nonce /\ Mark(state', i) = block[i].nonce + 1
  BY <1>1, <1>15
<1>16. ASSUME NEW j \in DOMAIN w, w[j], block[j].kind \in CountedKinds
       PROVE  block[j].nonce < Mark(state', j)
  <2>1. CASE j = i
    <3>1. Mark(state', i) = block[i].nonce + 1
      BY <1>12, <1>15, <1>16, <2>1
    <3>2. block[i].nonce \in Nat
      BY <1>6, <1>14
    <3> QED BY <2>1, <3>1, <3>2
  <2>2. CASE j # i
    <3>1. j \in DOMAIN outcomes /\ outcomes[j] /\ j \in 1 .. Len(block)
      BY <1>3, <1>10, <1>11, <1>16, <2>2
    <3>2. block[j].nonce < Mark(state, j)
      BY <1>4, <1>16, <3>1
    <3>3. block[j].nonce \in Nat
      BY <1>14, <3>1
    <3> HIDE DEF Mark
    <3> QED BY <1>13, <3>2, <3>3
  <2> QED BY <2>1, <2>2
<1>17. ASSUME NEW j \in DOMAIN outcomes, outcomes[j], block[j].kind \in CountedKinds, ok,
              block[i].kind \in CountedKinds, block[j].from = block[i].from
       PROVE  block[j].nonce # block[i].nonce
  <2>1. block[j].nonce < Mark(state, j) /\ Mark(state, j) = Mark(state, i)
    BY <1>4, <1>17
  <2>2. Mark(state, i) = block[i].nonce
    BY <1>15, <1>17
  <2>3. block[j].nonce \in Nat /\ block[i].nonce \in Nat
    BY <1>3, <1>6, <1>14
  <2> HIDE DEF Mark
  <2> QED BY <2>1, <2>2, <2>3
<1>18. Once(w, block)
  <2> SUFFICES ASSUME NEW k \in DOMAIN w, NEW j \in DOMAIN w, w[k], w[j], k # j,
                      block[k].kind \in CountedKinds, block[j].kind \in CountedKinds
               PROVE  <<block[k].from, block[k].nonce>> # <<block[j].from, block[j].nonce>>
    BY DEF Once
  <2>1. CASE k # i /\ j # i
    <3>1. k \in DOMAIN outcomes /\ outcomes[k] /\ j \in DOMAIN outcomes /\ outcomes[j]
      BY <1>10, <1>11, <2>1
    <3> QED BY <1>2, <3>1 DEF Once
  <2>2. CASE k = i
    <3>1. j \in DOMAIN outcomes /\ outcomes[j] /\ ok
      BY <1>10, <1>11, <1>12, <2>2
    <3> QED BY <1>17, <2>2, <3>1
  <2>3. CASE j = i
    <3>1. k \in DOMAIN outcomes /\ outcomes[k] /\ ok
      BY <1>10, <1>11, <1>12, <2>3
    <3> QED BY <1>17, <2>3, <3>1
  <2> QED BY <2>1, <2>2, <2>3
<1>19. ParallelIsSequential'
  <2>1. i \in DOMAIN outcomes'
    BY <1>8, <1>10
  <2>2. i \notin UNION {parts'[p].group : p \in DOMAIN parts'}
    BY <1>3, <1>6, <1>7
  <2>3. DOMAIN outcomes' # UNION {parts'[p].group : p \in DOMAIN parts'}
    BY <2>1, <2>2
  <2> QED BY <2>3 DEF ParallelIsSequential
<1>20. Finishing'
  <2>1. \A j \in serial' : j \in 1 .. Len(block) /\ block[j].kind \in SerialKinds /\ j \notin DOMAIN w
    BY <1>3, <1>7, <1>10
  <2>2. \A p \in DOMAIN parts : parts[p].group \cap serial' = {}
    BY <1>3, <1>7
  <2>3. DOMAIN w \subseteq 1 .. Len(block)
    BY <1>3, <1>6, <1>10
  <2>4. \A j \in DOMAIN w : w[j] /\ block[j].kind \in CountedKinds =>
          block[j].nonce < Account(state', block[j].from).nonce
    BY <1>16
  <2> QED BY <1>7, <1>8, <2>1, <2>2, <2>3, <2>4 DEF Finishing
<1> QED BY <1>7, <1>8, <1>18, <1>19, <1>20

\* Charging a sender that can pay, or creating one that cannot.
LEMMA ChargeSerial ==
  ASSUME NEW d \in Dbs, NEW tx \in Txs, tx.kind # "Refresh"
  PROVE  /\ CanPay(d, tx) => /\ Charged(d, tx) \in Dbs /\ Supply(Charged(d, tx)) <= Supply(d)
                             /\ \A a : Account(Charged(d, tx), a).nonce = Account(d, a).nonce
         /\ Store(d, tx.from, Account(d, tx.from)) \in Dbs
         /\ Supply(Store(d, tx.from, Account(d, tx.from))) = Supply(d)
         /\ \A a : Account(Store(d, tx.from, Account(d, tx.from)), a) = Account(d, a)
<1>1. ASSUME CanPay(d, tx)
      PROVE  /\ Charged(d, tx) \in Dbs /\ Supply(Charged(d, tx)) <= Supply(d)
             /\ \A a : Account(Charged(d, tx), a).nonce = Account(d, a).nonce
  <2>1. Supply(Charged(d, tx)) <= Supply(d)
    BY <1>1, ChargedSupply
  <2> QED BY <1>1, <2>1, ChargedFacts
<1>2. PICK acct : acct = Account(d, tx.from)
  OBVIOUS
<1>3. acct \in AccountRecords /\ tx.from \in Accounts
  BY <1>2, AccountType, TxFields DEF Dbs
<1>4. PICK f \in Accounts : f = tx.from
  BY <1>3
<1>5. PICK e : e = Store(d, f, acct)
  OBVIOUS
<1>6. e \in Dbs
  BY <1>3, <1>5, StoreFacts
<1>7. \A a : Account(e, a) = IF a = f THEN acct ELSE Account(d, a)
  BY <1>3, <1>5, StoreFacts
<1>8. Supply(e) = (Supply(d) - Worth(acct)) + Worth(acct) /\ Supply(d) \in Int
  BY <1>2, <1>3, <1>4, <1>5, StoreSupply
<1>9. Worth(acct) \in Nat
  BY <1>3 DEF Worth, AccountRecords
<1>10. Supply(e) = Supply(d)
  BY <1>8, <1>9
<1>11. \A a : Account(e, a) = Account(d, a)
  BY <1>2, <1>4, <1>7
<1> QED BY <1>1, <1>2, <1>4, <1>5, <1>6, <1>10, <1>11

-----------------------------------------------------------------------------
(* Every step keeps the invariant.                                         *)

\* The order of supplies is transitive.
LEMMA SupplyOrder ==
  ASSUME NEW c \in Dbs, NEW d \in Dbs, NEW e \in Dbs, Supply(c) <= Supply(d), Supply(d) <= Supply(e)
  PROVE  Supply(c) <= Supply(e)
<1>1. Supply(c) \in Int /\ Supply(d) \in Int /\ Supply(e) \in Int
  BY SupplyIs
<1> QED BY <1>1

\* The transaction the serial stage is at.
LEMMA SerialTx ==
  ASSUME ExecutorInv, stage = "serial", serial # {}
  PROVE  /\ block[Min(serial)] \in Txs /\ block[Min(serial)].kind \in SerialKinds
         /\ block[Min(serial)].kind # "Refresh"
<1>1. Finishing /\ block \in Seq(Txs)
  BY DEF ExecutorInv
<1>2. \A j \in serial : j \in 1 .. Len(block) /\ block[j].kind \in SerialKinds
  BY <1>1 DEF Finishing
<1>3. serial \in SUBSET Nat
  BY <1>1, <1>2
<1>4. Min(serial) \in serial
  BY <1>3, MinIsLeast
<1>5. block[Min(serial)] \in Txs /\ block[Min(serial)].kind \in SerialKinds
  BY <1>1, <1>2, <1>4
<1> QED BY <1>5 DEF SerialKinds

\* SerialRefused preserves the invariant.
LEMMA RefusedKeeps ==
  ASSUME ExecutorInv, SerialRefused
  PROVE  ExecutorInv'
<1>1. stage = "serial" /\ serial # {} /\ UNCHANGED totals
  BY DEF SerialRefused
<1>2. /\ state \in Dbs /\ parent \in Dbs /\ block \in Seq(Txs) /\ number \in Nat /\ totals.gas \in Nat
      /\ totals.gas <= block_gas_limit /\ Supply(state) <= Supply(parent)
  BY <1>1 DEF ExecutorInv, GasWithinLimit, SupplyNeverGrows
<1>3. PICK tx : tx = block[Min(serial)]
  OBVIOUS
<1>4. tx \in Txs /\ tx.kind # "Refresh"
  BY <1>1, <1>3, SerialTx
<1>5. state' = state \/ state' = Store(state, tx.from, Account(state, tx.from))
  BY <1>3 DEF SerialRefused
<1>6. \A a : Account(state, a).nonce \in Nat
  BY <1>2, AccountType DEF Dbs, AccountRecords
<1>7. /\ state' \in Dbs /\ Supply(state') = Supply(state)
      /\ \A a : Account(state', a) = Account(state, a)
  BY <1>2, <1>4, <1>5, ChargeSerial
<1>8. \A a : Account(state', a).nonce >= Account(state, a).nonce
  BY <1>6, <1>7
<1>9. PICK no \in BOOLEAN : ~no /\ SerialDone(no)
  <2>1. SerialDone(FALSE)
    BY DEF SerialRefused
  <2> QED BY <2>1, Zenon
<1>10. /\ Finishing' /\ Once(outcomes', block') /\ ParallelIsSequential'
       /\ UNCHANGED <<block, stage, number, parent>>
  BY <1>1, <1>7, <1>8, <1>9, SerialFinishes
<1>11. SupplyNeverGrows' /\ GasWithinLimit'
  BY <1>1, <1>2, <1>7, <1>10 DEF SupplyNeverGrows, GasWithinLimit
<1>12. NonceUsedOnce'
  <2>1. Once(outcomes, block)'
    BY <1>10
  <2> QED BY <2>1, OnceIs, PTL
<1> QED BY <1>1, <1>2, <1>7, <1>10, <1>11, <1>12 DEF ExecutorInv

\* SerialExecuted preserves the invariant.
LEMMA ExecutedKeeps ==
  ASSUME ExecutorInv, SerialExecuted
  PROVE  ExecutorInv'
<1>1. stage = "serial" /\ serial # {}
  BY DEF SerialExecuted
<1>2. /\ state \in Dbs /\ parent \in Dbs /\ block \in Seq(Txs) /\ number \in Nat /\ totals.gas \in Nat
      /\ totals.gas <= block_gas_limit /\ Supply(state) <= Supply(parent)
  BY <1>1 DEF ExecutorInv, GasWithinLimit, SupplyNeverGrows
<1>3. PICK tx : tx = block[Min(serial)]
  OBVIOUS
<1>4. tx \in Txs /\ tx.kind # "Refresh" /\ tx.kind \in SerialKinds
  BY <1>1, <1>3, SerialTx
<1>5. PICK c : c = Charged(state, tx)
  OBVIOUS
<1>6. PICK r : r = SerialArm(c, tx)
  OBVIOUS
<1>7. ~OverLimit(tx) /\ CanPay(state, tx) /\ tx.kind # "DeployTemplate"
  BY <1>3 DEF SerialExecuted
<1>8. state' = r.state /\ SerialDone(r.ok)
  BY <1>3, <1>5, <1>6, Zenon DEF SerialExecuted
<1>9. totals'.gas = totals.gas + (IF r.ok THEN Gas[tx.kind] ELSE 0)
  <2>1. totals' = [gas |-> totals.gas + (IF r.ok THEN Gas[tx.kind] ELSE 0), fees |-> totals.fees + Fee(tx)]
    BY <1>3, <1>5, <1>6, Zenon DEF SerialExecuted
  <2> QED BY <2>1
<1>10. /\ c \in Dbs /\ Supply(c) <= Supply(state)
       /\ \A a : Account(c, a).nonce = Account(state, a).nonce
  BY <1>2, <1>4, <1>5, <1>7, ChargeSerial
<1>11. ArmDone(c, tx, r)
  BY <1>2, <1>4, <1>6, <1>7, <1>10, SerialArmFacts
<1>12. /\ state' \in Dbs /\ Supply(state') <= Supply(c)
       /\ \A a : Account(state', a).nonce >= Account(state, a).nonce
  BY <1>8, <1>10, <1>11 DEF ArmDone
<1>13. r.ok /\ tx.kind \in CountedKinds => /\ Account(state, tx.from).nonce = tx.nonce
                                          /\ Account(state', tx.from).nonce = tx.nonce + 1
  BY <1>8, <1>10, <1>11 DEF ArmDone
<1>14. PICK ok \in BOOLEAN : ok = r.ok
  BY <1>11, Zenon DEF ArmDone
<1>15. SerialDone(ok)
  BY <1>8, <1>14, Zenon
<1>16. ok /\ tx.kind \in CountedKinds => /\ Account(state, tx.from).nonce = tx.nonce
                                        /\ Account(state', tx.from).nonce = tx.nonce + 1
  BY <1>13, <1>14, Zenon
<1>17. /\ Finishing' /\ Once(outcomes', block') /\ ParallelIsSequential'
       /\ UNCHANGED <<block, stage, number, parent>>
  BY <1>1, <1>3, <1>12, <1>15, <1>16, SerialFinishes
<1>18. totals'.gas \in Nat /\ totals'.gas <= block_gas_limit
  <2>1. Gas[tx.kind] \in Nat /\ block_gas_limit \in Nat
    BY <1>4, TxFields, ExecutorAssumption
  <2>2. ~(totals.gas + Gas[tx.kind] > block_gas_limit)
    BY <1>7 DEF OverLimit
  <2> QED BY <1>2, <1>9, <2>1, <2>2
<1>19. Supply(state') <= Supply(parent)
  <2>1. Supply(state') <= Supply(state)
    BY <1>2, <1>10, <1>12, SupplyOrder
  <2> QED BY <1>2, <1>12, <2>1, SupplyOrder
<1>20. SupplyNeverGrows' /\ GasWithinLimit'
  BY <1>17, <1>18, <1>19 DEF SupplyNeverGrows, GasWithinLimit
<1>21. NonceUsedOnce'
  <2>1. Once(outcomes, block)'
    BY <1>17
  <2> QED BY <2>1, OnceIs, PTL
<1> QED BY <1>1, <1>2, <1>12, <1>17, <1>18, <1>20, <1>21 DEF ExecutorInv

\* SerialUnreachable preserves the invariant.
LEMMA UnreachableKeeps ==
  ASSUME ExecutorInv, SerialUnreachable
  PROVE  ExecutorInv'
<1>1. /\ stage = "serial" /\ serial # {} /\ stage' = "panic"
      /\ UNCHANGED <<block, parts, serial, outcomes, totals, number, parent>>
  BY DEF SerialUnreachable
<1>2. /\ state \in Dbs /\ parent \in Dbs /\ block \in Seq(Txs) /\ number \in Nat /\ totals.gas \in Nat
      /\ totals.gas <= block_gas_limit /\ Supply(state) <= Supply(parent) /\ NonceUsedOnce
  BY <1>1 DEF ExecutorInv, GasWithinLimit, SupplyNeverGrows
<1>3. PICK tx : tx = block[Min(serial)]
  OBVIOUS
<1>4. tx \in Txs /\ tx.kind # "Refresh"
  BY <1>1, <1>3, SerialTx
<1>5. state' = Charged(state, tx) /\ CanPay(state, tx)
  BY <1>3 DEF SerialUnreachable
<1>6. state' \in Dbs /\ Supply(state') <= Supply(state)
  BY <1>2, <1>4, <1>5, ChargeSerial
<1>7. Supply(state') <= Supply(parent)
  BY <1>2, <1>6, SupplyOrder
<1>8. NonceUsedOnce'
  BY <1>1, <1>2 DEF NonceUsedOnce, OncePerNonce
<1> QED BY <1>1, <1>2, <1>6, <1>7, <1>8
        DEF ExecutorInv, GasWithinLimit, SupplyNeverGrows, ParallelIsSequential

\* EndBlock preserves the invariant.
LEMMA EndKeeps ==
  ASSUME ExecutorInv, EndBlock
  PROVE  ExecutorInv'
<1>1. /\ stage = "serial" /\ stage' = "idle"
      /\ UNCHANGED <<state, block, parts, serial, outcomes, totals, number, parent>>
  BY DEF EndBlock
<1>2. NonceUsedOnce'
  BY <1>1 DEF ExecutorInv, NonceUsedOnce, OncePerNonce
<1> QED BY <1>1, <1>2 DEF ExecutorInv, GasWithinLimit, SupplyNeverGrows, ParallelIsSequential

\* MergeOverlays preserves the invariant.
LEMMA MergeKeeps ==
  ASSUME ExecutorInv, MergeOverlays
  PROVE  ExecutorInv'
<1>1. /\ Finishing' /\ stage' = "serial" /\ state' \in Dbs /\ Supply(state') <= Supply(parent)
      /\ state' = Sequential.state /\ outcomes = Sequential.ok
      /\ Once(outcomes, block)
      /\ totals'.gas \in Nat /\ totals'.gas <= block_gas_limit
      /\ UNCHANGED <<block, parent, number, outcomes, parts>>
  BY MergeFinishes
<1>2. NonceUsedOnce'
  <2>1. NonceUsedOnce
    BY DEF ExecutorInv
  <2> QED BY <1>1, <2>1 DEF NonceUsedOnce, OncePerNonce
<1>3. Sequential' = Sequential
  BY <1>1 DEF Sequential
<1>4. ParallelIsSequential'
  BY <1>1, <1>3 DEF ParallelIsSequential
<1> QED BY <1>1, <1>2, <1>4 DEF ExecutorInv, GasWithinLimit, SupplyNeverGrows

\* A turn of a partition preserves the invariant.
LEMMA TurnKeeps ==
  ASSUME ExecutorInv, NEW p, ExecutePartition(p)
  PROVE  ExecutorInv'
<1>1. /\ Running' /\ stage' = "parallel"
      /\ UNCHANGED <<state, block, parent, number, totals>>
  BY TurnRuns
<1>2. block \in Seq(Txs) /\ parent \in Dbs
  BY DEF ExecutorInv
<1>3. PICK gs : gs = Groups(parts')
  OBVIOUS
<1>4. DOMAIN gs = DOMAIN parts' /\ Split(gs, block) /\ IsFiniteSet(DOMAIN gs)
  BY <1>1, <1>3 DEF Running, Groups
<1>5. PICK G : IsRun(G, block, parent, gs)
  BY <1>2, <1>4, RunExists
<1>6. \A i \in DOMAIN outcomes' : outcomes'[i] = G[Len(block)].ok[i]
  BY <1>1, <1>3, <1>5 DEF Running
<1>7. \A i \in DOMAIN outcomes' : i \in DOMAIN G[Len(block)].ok
  <2> SUFFICES ASSUME NEW i \in DOMAIN outcomes' PROVE i \in DOMAIN G[Len(block)].ok
    OBVIOUS
  <2>1. PICK q \in DOMAIN parts' : i \in parts'[q].group
    BY <1>1 DEF Running
  <2>2. i \in gs[q]
    BY <1>3, <2>1 DEF Groups
  <2>3. i \in 1 .. Len(block) /\ block[i].kind \notin SerialKinds
    BY <1>4, <2>1, <2>2 DEF Split
  <2>4. Len(block) \in 0 .. Len(block)
    BY <1>2
  <2>5. RunDone(parent, G[Len(block)], block, Len(block))
    BY <1>2, <1>4, <1>5, <2>4, RunFacts
  <2> QED BY <2>3, <2>5 DEF RunDone
<1>8. Once(outcomes', block)
  BY <1>2, <1>4, <1>5, <1>6, <1>7, RunOnce
<1>9. NonceUsedOnce'
  <2>1. Once(outcomes, block)'
    BY <1>1, <1>8
  <2> QED BY <2>1, OnceIs, PTL
<1> QED BY <1>1, <1>9 DEF ExecutorInv, GasWithinLimit, SupplyNeverGrows, ParallelIsSequential

\* StartBlock preserves the invariant.
LEMMA StartKeeps ==
  ASSUME ExecutorInv, NEW txs \in Seq(Txs), StartBlock(txs)
  PROVE  ExecutorInv'
<1>1. /\ Running' /\ state' \in Dbs /\ parent' \in Dbs /\ block' \in Seq(Txs) /\ number' \in Nat
      /\ totals'.gas \in Nat /\ stage' = "parallel"
  BY StartRuns
<1>2. state' = parent' /\ outcomes' = <<>>
  BY DEF StartBlock
<1>3. SupplyNeverGrows'
  BY <1>1, <1>2, SupplyIs DEF SupplyNeverGrows
<1>4. NonceUsedOnce'
  BY <1>2 DEF NonceUsedOnce, OncePerNonce
<1> QED BY <1>1, <1>3, <1>4 DEF ExecutorInv, GasWithinLimit, ParallelIsSequential

\* The invariant holds at the start.
LEMMA ExecutorStarts ==
  ExecutorInit => ExecutorInv
<1> SUFFICES ASSUME ExecutorInit PROVE ExecutorInv
  OBVIOUS
<1>1. /\ state = GenesisDb /\ parent = GenesisDb /\ block = <<>> /\ stage = "idle"
      /\ outcomes = <<>> /\ totals = [gas |-> 0, fees |-> 0] /\ number = 0
  BY DEF ExecutorInit
<1>2. state \in Dbs /\ block_gas_limit \in Nat
  BY <1>1, DbIs, ExecutorAssumption
<1>3. SupplyNeverGrows
  BY <1>1, <1>2, SupplyIs DEF SupplyNeverGrows
<1>4. NonceUsedOnce
  BY <1>1 DEF NonceUsedOnce, OncePerNonce
<1>5. totals.gas = 0 /\ block \in Seq(Txs)
  BY <1>1
<1> QED BY <1>1, <1>2, <1>3, <1>4, <1>5 DEF ExecutorInv, GasWithinLimit, ParallelIsSequential

\* Every step preserves the invariant.
LEMMA ExecutorSteps ==
  ExecutorInv /\ [ExecutorNext]_executorVars => ExecutorInv'
<1> SUFFICES ASSUME ExecutorInv, [ExecutorNext]_executorVars PROVE ExecutorInv'
  OBVIOUS
<1>1. CASE \E txs \in BoundedSeq(Txs, MaxBlockTxs) : StartBlock(txs)
  <2>1. PICK txs \in BoundedSeq(Txs, MaxBlockTxs) : StartBlock(txs)
    BY <1>1
  <2>2. txs \in Seq(Txs)
    <3>1. PICK n \in 0 .. MaxBlockTxs : txs \in [1 .. n -> Txs]
      BY DEF BoundedSeq, SeqOf
    <3>2. n \in Nat
      BY ExecutorAssumption
    <3> QED BY <3>1, <3>2
  <2> QED BY <2>1, <2>2, StartKeeps
<1>2. CASE \E p \in 1 .. MaxBlockTxs : ExecutePartition(p)
  BY <1>2, TurnKeeps
<1>3. CASE MergeOverlays
  BY <1>3, MergeKeeps
<1>4. CASE SerialRefused
  BY <1>4, RefusedKeeps
<1>5. CASE SerialExecuted
  BY <1>5, ExecutedKeeps
<1>6. CASE SerialUnreachable
  BY <1>6, UnreachableKeeps
<1>7. CASE EndBlock
  BY <1>7, EndKeeps
<1>8. CASE UNCHANGED executorVars
  <2>1. /\ state' = state /\ block' = block /\ stage' = stage /\ parts' = parts /\ serial' = serial
        /\ outcomes' = outcomes /\ totals' = totals /\ number' = number /\ parent' = parent
    BY <1>8 DEF executorVars
  <2>2. Running' = Running
    BY <2>1 DEF Running, Groups
  <2>3. Finishing' = Finishing
    BY <2>1 DEF Finishing
  <2>4. GasWithinLimit' = GasWithinLimit /\ SupplyNeverGrows' = SupplyNeverGrows /\ NonceUsedOnce' = NonceUsedOnce
    BY <2>1 DEF GasWithinLimit, SupplyNeverGrows, NonceUsedOnce, OncePerNonce
  <2>5. ParallelIsSequential' = ParallelIsSequential
    BY <2>1 DEF ParallelIsSequential, Sequential
  <2> QED BY <2>1, <2>2, <2>3, <2>4, <2>5 DEF ExecutorInv
<1> QED BY <1>1, <1>2, <1>3, <1>4, <1>5, <1>6, <1>7, <1>8 DEF ExecutorNext

\* The inductive invariant of execute_block: in the parallel stage every overlay is
\* the state of the sequential execution seen through the keys of its partition; in
\* the serial stage what has executed has used up its nonce.
THEOREM ExecutorInvariant == ExecutorSpec => []ExecutorInv
BY ExecutorStarts, ExecutorSteps, PTL DEF ExecutorSpec

\* After the merge of execute_block, state and outcomes are those of executing the
\* transactions of the parallel pool one by one in block order, for every block and
\* every order in which the threads of the partitions take their turns.
THEOREM ParallelIsSequentialHolds == ExecutorSpec => []ParallelIsSequential
<1>1. ExecutorInv => ParallelIsSequential
  BY DEF ExecutorInv
<1> QED BY <1>1, ExecutorInvariant, PTL

\* The shares of gas that execute_block gives its partitions, and the check of the
\* serial loop, keep every block within block_gas_limit.
THEOREM GasWithinLimitHolds == ExecutorSpec => []GasWithinLimit
<1>1. ExecutorInv => GasWithinLimit
  BY DEF ExecutorInv
<1> QED BY <1>1, ExecutorInvariant, PTL

\* No transaction that execute_block runs, in an overlay or in the serial loop,
\* creates a token: balances, deposits and stakes never sum to more than before.
THEOREM SupplyNeverGrowsHolds == ExecutorSpec => []SupplyNeverGrows
<1>1. ExecutorInv => SupplyNeverGrows
  BY DEF ExecutorInv
<1> QED BY <1>1, ExecutorInvariant, PTL

\* No nonce of a sender is used twice in a block, by two partitions, by a partition
\* and the serial loop, or by two serial transactions, of any kind but the blobs,
\* whose nonces nothing checks.
THEOREM NonceUsedOnceHolds == ExecutorSpec => []NonceUsedOnce
<1>1. ExecutorInv => NonceUsedOnce
  BY DEF ExecutorInv
<1> QED BY <1>1, ExecutorInvariant, PTL
================================================================================
