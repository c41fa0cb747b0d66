------------------------------ MODULE StateProofs ------------------------------
(***************************************************************************)
(* What the state layer promises: nodes that sweep in different orders     *)
(* agree on objects and accounts, objects live exactly as long as their    *)
(* energy and the grace period last, ghosts lead to their leaves, and the  *)
(* write-ahead log recovers what a crash interrupted.                      *)
(***************************************************************************)
EXTENDS Evaporation, Wal, SetLemmas, SequenceTheorems

-----------------------------------------------------------------------------
(* Energy.                                                                 *)

\* The recursive definition of the powers of two has a solution.
LEMMA PowersExist ==
  \E h : h = [k \in 0 .. EnergyBits |-> IF k = 0 THEN 1 ELSE 2 * h[k - 1]]
<1> DEFINE Body(h, k) == IF k = 0 THEN 1 ELSE 2 * h[k - 1]
           Partial(m) == \E h : DOMAIN h = 0 .. m /\ \A k \in 0 .. m : h[k] = Body(h, k)
           Bad == {m \in Nat : ~Partial(m)}
<1>1. Partial(0)
  <2> DEFINE z == [k \in 0 .. 0 |-> 1]
  <2>1. DOMAIN z = 0 .. 0 /\ \A k \in 0 .. 0 : z[k] = Body(z, k)
    OBVIOUS
  <2> HIDE DEF z, Body
  <2> QED BY <2>1
<1>2. ASSUME NEW m \in Nat, Partial(m) PROVE Partial(m + 1)
  <2>1. PICK h : DOMAIN h = 0 .. m /\ \A k \in 0 .. m : h[k] = Body(h, k)
    BY <1>2
  <2> DEFINE e == [k \in 0 .. (m + 1) |-> Body(h, k)]
  <2>2. ASSUME NEW k \in 0 .. m PROVE k \in 0 .. (m + 1) /\ e[k] = h[k]
    <3>1. k \in 0 .. (m + 1)
      OBVIOUS
    <3>2. e[k] = Body(h, k)
      BY <3>1
    <3> HIDE DEF e, Body
    <3> QED BY <2>1, <3>1, <3>2
  <2>3. ASSUME NEW k \in 0 .. (m + 1) PROVE e[k] = Body(e, k)
    <3>1. CASE k = 0
      BY <3>1
    <3>2. CASE k # 0
      <4>1. k - 1 \in 0 .. m
        BY <3>2
      <4>2. e[k - 1] = h[k - 1]
        <5> HIDE DEF e
        <5> QED BY <2>2, <4>1
      <4>3. e[k] = Body(h, k)
        OBVIOUS
      <4>4. Body(h, k) = Body(e, k)
        <5> HIDE DEF e
        <5> QED BY <3>2, <4>2
      <4> HIDE DEF e, Body
      <4> QED BY <4>3, <4>4
    <3> QED BY <3>1, <3>2
  <2>4. DOMAIN e = 0 .. (m + 1)
    OBVIOUS
  <2> HIDE DEF e, Body
  <2> QED BY <2>3, <2>4
<1>3. Bad = {}
  <2> HIDE DEF Partial
  <2> SUFFICES ASSUME Bad # {} PROVE FALSE
    OBVIOUS
  <2>1. PICK m \in Bad : \A k \in Bad : m <= k
    BY LeastNatural
  <2>2. m # 0
    BY <1>1, <2>1
  <2>3. m - 1 \in Nat /\ m - 1 \notin Bad
    BY <2>1, <2>2
  <2>4. Partial((m - 1) + 1)
    BY <1>2, <2>3
  <2>5. (m - 1) + 1 = m
    BY <2>1
  <2> QED BY <2>1, <2>4, <2>5
<1>4. Partial(EnergyBits)
  <2> HIDE DEF Partial
  <2> QED BY <1>3, EvaporationAssumption
<1>5. PICK h : DOMAIN h = 0 .. EnergyBits /\ \A k \in 0 .. EnergyBits : h[k] = Body(h, k)
  BY <1>4
<1> DEFINE g == [k \in 0 .. EnergyBits |-> Body(h, k)]
<1>6. \A k \in 0 .. EnergyBits : g[k] = h[k]
  <2> HIDE DEF Body
  <2> QED BY <1>5
<1>7. \A k \in 0 .. EnergyBits : k # 0 => k - 1 \in 0 .. EnergyBits
  BY EvaporationAssumption
<1>8. \A k \in 0 .. EnergyBits : Body(g, k) = Body(h, k)
  <2> HIDE DEF g
  <2> QED BY <1>6, <1>7
<1>9. g = [k \in 0 .. EnergyBits |-> Body(g, k)]
  <2> DEFINE bh(k) == Body(h, k)
             bg(k) == Body(g, k)
  <2>1. \A k \in 0 .. EnergyBits : bg(k) = bh(k)
    BY <1>8
  <2>2. g = [k \in 0 .. EnergyBits |-> bh(k)]
    OBVIOUS
  <2> HIDE DEF bh, bg, g
  <2>3. [k \in 0 .. EnergyBits |-> bh(k)] = [k \in 0 .. EnergyBits |-> bg(k)]
    BY <2>1
  <2> QED BY <2>2, <2>3 DEF bg
<1> HIDE DEF g
<1> QED BY <1>9, Zenon

\* PowerOf2 doubles, and so never decreases.
LEMMA PowerFacts ==
  /\ PowerOf2[0] = 1
  /\ \A k \in 1 .. EnergyBits : PowerOf2[k] = 2 * PowerOf2[k - 1]
  /\ \A k \in 0 .. EnergyBits : PowerOf2[k] \in Nat \ {0}
  /\ \A i, j \in 0 .. EnergyBits : i <= j => PowerOf2[i] <= PowerOf2[j]
<1>0. EnergyBits \in Nat
  BY EvaporationAssumption
<1>1. PowerOf2 = [k \in 0 .. EnergyBits |-> IF k = 0 THEN 1 ELSE 2 * PowerOf2[k - 1]]
  BY PowersExist, Zenon DEF PowerOf2
<1>2. PowerOf2[0] = 1
  BY <1>0, <1>1
<1>3. ASSUME NEW k \in 1 .. EnergyBits PROVE PowerOf2[k] = 2 * PowerOf2[k - 1]
  <2>1. k \in 0 .. EnergyBits /\ k # 0
    BY <1>0
  <2>2. PowerOf2[k] = IF k = 0 THEN 1 ELSE 2 * PowerOf2[k - 1]
    BY <1>1, <2>1, Zenon
  <2> QED BY <2>1, <2>2
<1>4. \A k \in 0 .. EnergyBits : PowerOf2[k] \in Nat \ {0}
  <2> DEFINE Bad == {k \in Nat : k <= EnergyBits /\ PowerOf2[k] \notin Nat \ {0}}
  <2>1. Bad = {}
    <3> SUFFICES ASSUME Bad # {} PROVE FALSE
      OBVIOUS
    <3>1. PICK k \in Bad : \A l \in Bad : k <= l
      BY LeastNatural
    <3>2. k \in 1 .. EnergyBits
      BY <1>0, <1>2, <3>1
    <3>3. k - 1 \in Nat /\ k - 1 <= EnergyBits /\ k - 1 \notin Bad
      BY <1>0, <3>1, <3>2
    <3>4. PowerOf2[k - 1] \in Nat \ {0}
      BY <3>3
    <3>5. PowerOf2[k] \in Nat \ {0}
      BY <1>3, <3>2, <3>4
    <3> QED BY <3>1, <3>5
  <2> QED BY <1>0, <2>1
<1>5. ASSUME NEW i \in 0 .. EnergyBits PROVE \A j \in 0 .. EnergyBits : i <= j => PowerOf2[i] <= PowerOf2[j]
  <2> DEFINE Bad == {j \in Nat : j <= EnergyBits /\ i <= j /\ ~(PowerOf2[i] <= PowerOf2[j])}
  <2>1. Bad = {}
    <3> SUFFICES ASSUME Bad # {} PROVE FALSE
      OBVIOUS
    <3>1. PICK j \in Bad : \A l \in Bad : j <= l
      BY LeastNatural
    <3>2. j # i
      BY <1>4, <3>1
    <3>3. j \in 1 .. EnergyBits /\ i <= j - 1 /\ j - 1 \in 0 .. EnergyBits
      BY <1>0, <3>1, <3>2
    <3>4. j - 1 \notin Bad
      BY <1>0, <3>1
    <3>5. PowerOf2[i] <= PowerOf2[j - 1]
      BY <1>0, <3>3, <3>4
    <3>6. PowerOf2[j] = 2 * PowerOf2[j - 1]
      BY <1>3, <3>3
    <3>7. PowerOf2[j - 1] \in Nat /\ PowerOf2[i] \in Nat
      BY <1>4, <3>3
    <3> QED BY <3>1, <3>5, <3>6, <3>7
  <2> QED BY <1>0, <2>1
<1> QED BY <1>2, <1>3, <1>4, <1>5

\* Energies are positive and fit into EnergyBits bits, sums saturate.
LEMMA EnergyFacts ==
  /\ MaxEnergy \in Nat
  /\ Energies \subseteq 1 .. MaxEnergy
  /\ \A a \in 0 .. MaxEnergy, b \in 1 .. MaxEnergy : SaturatingAdd(a, b) \in 1 .. MaxEnergy
<1>1. PowerOf2[EnergyBits] \in Nat \ {0}
  BY PowerFacts, EvaporationAssumption
<1>2. MaxEnergy \in Nat
  BY <1>1 DEF MaxEnergy
<1> QED BY <1>2, EnergyAssumption DEF SaturatingAdd

\* The highest bit of an energy.
LEMMA Log2Facts ==
  ASSUME NEW c \in 1 .. MaxEnergy
  PROVE  /\ Log2(c) \in 0 .. EnergyBits - 1
         /\ PowerOf2[Log2(c)] <= c /\ c < PowerOf2[Log2(c) + 1]
<1>0. EnergyBits \in Nat \ {0} /\ c \in Nat \ {0} /\ c < PowerOf2[EnergyBits]
  BY EnergyFacts, PowerFacts, EvaporationAssumption, SMTT(30) DEF MaxEnergy
<1> DEFINE Above == {k \in Nat : k <= EnergyBits /\ c < PowerOf2[k]}
<1>1. PICK k \in Above : \A l \in Above : k <= l
  <2>1. Above # {} /\ Above \subseteq Nat
    BY <1>0
  <2> QED BY <2>1, LeastNatural
<1>2. k # 0
  BY <1>0, <1>1, PowerFacts
<1>3. k - 1 \in 0 .. EnergyBits - 1 /\ k - 1 \notin Above /\ (k - 1) + 1 = k
  BY <1>0, <1>1, <1>2
<1>4. PowerOf2[k - 1] <= c /\ c < PowerOf2[(k - 1) + 1]
  <2>1. PowerOf2[k - 1] \in Nat
    BY <1>0, <1>3, PowerFacts
  <2>2. ~(c < PowerOf2[k - 1])
    BY <1>0, <1>3
  <2> QED BY <1>0, <1>1, <1>3, <2>1, <2>2
<1>5. \E l \in 0 .. EnergyBits - 1 : PowerOf2[l] <= c /\ c < PowerOf2[l + 1]
  BY <1>3, <1>4
<1> QED BY <1>5, Zenon DEF Log2

\* Arithmetic that the solver finds only by itself.
LEMMA Division ==
  ASSUME NEW a \in Nat, NEW b \in Nat \ {0}
  PROVE  /\ a \div b \in Nat /\ a % b \in 0 .. b - 1
         /\ b * (a \div b) <= a /\ a < b * (a \div b) + b
OBVIOUS

LEMMA TimesMonotone ==
  ASSUME NEW a \in Nat, NEW b \in Nat, NEW c \in Nat, a <= b
  PROVE  c * a <= c * b
OBVIOUS

\* The energy is gone when, and only when, epochs_until_zero epochs have passed.
LEMMA EnergyGone ==
  ASSUME NEW c \in 1 .. MaxEnergy, NEW t \in Nat
  PROVE  /\ EpochsUntilZero(c) \in Nat \ {0}
         /\ EnergyAtEpoch(c, t) = 0 <=> t >= EpochsUntilZero(c)
<1>0. half_life \in Nat \ {0} /\ EnergyBits \in Nat \ {0} /\ c \in Nat \ {0}
  BY EvaporationAssumption, EnergyFacts
<1>1. PICK lg \in 0 .. EnergyBits - 1 : lg = Log2(c) /\ PowerOf2[lg] <= c /\ c < PowerOf2[lg + 1]
  BY Log2Facts
<1>2. EpochsUntilZero(c) = half_life * (lg + 1)
  BY <1>0, <1>1 DEF EpochsUntilZero
<1>3. PICK k \in Nat : k = t \div half_life
  BY <1>0, Division
<1>4. half_life * k <= t /\ t < half_life * (k + 1)
  BY <1>0, <1>3, Division
<1>5. lg \in Nat /\ half_life * (lg + 1) \in Nat \ {0}
  BY <1>0
<1>6. t >= half_life * (lg + 1) <=> k >= lg + 1
  <2>1. CASE k >= lg + 1
    <3>1. half_life * (lg + 1) <= half_life * k
      BY <1>0, <1>5, <2>1, TimesMonotone
    <3>2. half_life * k \in Nat
      BY <1>0
    <3> QED BY <1>4, <1>5, <2>1, <3>1, <3>2
  <2>2. CASE ~(k >= lg + 1)
    <3>1. k + 1 <= lg + 1
      BY <1>5, <2>2
    <3>2. half_life * (k + 1) <= half_life * (lg + 1)
      BY <1>0, <1>5, <3>1, TimesMonotone
    <3>3. half_life * (k + 1) \in Nat
      BY <1>0
    <3> QED BY <1>4, <1>5, <2>2, <3>2, <3>3
  <2> QED BY <2>1, <2>2
<1>7. EnergyAtEpoch(c, t) = 0 <=> k >= lg + 1
  <2>1. CASE k >= EnergyBits
    <3>1. EnergyAtEpoch(c, t) = 0
      BY <1>3, <2>1 DEF EnergyAtEpoch
    <3> QED BY <1>0, <2>1, <3>1
  <2>2. CASE ~(k >= EnergyBits)
    <3>1. k \in 0 .. EnergyBits /\ PowerOf2[k] \in Nat \ {0}
      BY <1>0, <2>2, PowerFacts
    <3>2. PICK after : after = c \div PowerOf2[k]
      OBVIOUS
    <3>3. after \in Nat /\ PowerOf2[k] * after <= c /\ c < PowerOf2[k] * after + PowerOf2[k]
      BY <1>0, <3>1, <3>2, Division
    <3>4. PICK r \in 0 .. half_life - 1 : r = t % half_life
      BY <1>0, Division
    <3>5. EnergyAtEpoch(c, t) = after - (after * r) \div (2 * half_life)
      BY <1>3, <2>2, <3>2, <3>4 DEF EnergyAtEpoch
    <3>6. CASE after = 0
      <4>1. EnergyAtEpoch(c, t) = 0
        <5>1. after * r = 0 /\ 2 * half_life \in Nat \ {0}
          BY <1>0, <3>6
        <5>2. (after * r) \div (2 * half_life) = 0
          BY <5>1
        <5> QED BY <3>5, <3>6, <5>2
      <4>2. c < PowerOf2[k]
        BY <1>0, <3>1, <3>3, <3>6
      <4>3. ASSUME ~(k >= lg + 1) PROVE FALSE
        <5>1. k <= lg /\ lg \in 0 .. EnergyBits
          BY <1>0, <4>3
        <5>2. PowerOf2[k] <= PowerOf2[lg] /\ PowerOf2[lg] \in Nat
          BY <3>1, <5>1, PowerFacts
        <5> QED BY <1>0, <1>1, <3>1, <4>2, <5>2
      <4> QED BY <4>1, <4>3
    <3>7. CASE after # 0
      <4>1. EnergyAtEpoch(c, t) # 0
        <5>1. PICK q : q = (after * r) \div (2 * half_life)
          OBVIOUS
        <5>2. after * r \in Nat /\ 2 * half_life \in Nat \ {0}
          BY <1>0, <3>3
        <5>3. q \in Nat /\ (2 * half_life) * q <= after * r
          BY <5>1, <5>2, Division
        <5>4. after * r <= after * half_life
          BY <1>0, <3>3, TimesMonotone
        <5>5. ASSUME q >= after PROVE FALSE
          <6>1. (2 * half_life) * after <= (2 * half_life) * q
            BY <3>3, <5>2, <5>3, <5>5, TimesMonotone
          <6>2. (2 * half_life) * after = 2 * (after * half_life)
            BY <1>0, <3>3
          <6>3. after * half_life \in Nat \ {0}
            BY <1>0, <3>3, <3>7
          <6> QED BY <5>2, <5>3, <5>4, <6>1, <6>2, <6>3
        <5> QED BY <3>3, <3>5, <5>1, <5>3, <5>5
      <4>2. PowerOf2[k] <= c
        <5>1. PowerOf2[k] * 1 <= PowerOf2[k] * after
          BY <3>1, <3>3, <3>7, TimesMonotone
        <5> QED BY <1>0, <3>1, <3>3, <5>1
      <4>3. ASSUME k >= lg + 1 PROVE FALSE
        <5>1. lg + 1 \in 0 .. EnergyBits
          BY <1>0
        <5>2. PowerOf2[lg + 1] <= PowerOf2[k] /\ PowerOf2[lg + 1] \in Nat
          BY <3>1, <4>3, <5>1, PowerFacts
        <5> QED BY <1>0, <1>1, <3>1, <4>2, <5>2
      <4> QED BY <4>1, <4>3
    <3> QED BY <3>6, <3>7
  <2> QED BY <2>1, <2>2
<1> QED BY <1>2, <1>5, <1>6, <1>7

-----------------------------------------------------------------------------
(* One block of one node.                                                  *)

ObjectRecords ==
  [owner : Owners, energy : 0 .. MaxEnergy, charge : 1 .. MaxEnergy, last_refreshed : Nat,
   state : {"Active", "Resurrected", "Grace"}, grace_epoch : Nat]
GhostRecords == [owner : Owners, evaporated_at : Nat, mmr_position : Nat]
Leaves == [id : ObjectIds, epoch : Nat]

\* A state database.
IsDb(d) ==
  /\ d = [objects |-> d.objects, ghosts |-> d.ghosts,
          storage_bytes |-> d.storage_bytes, mmr |-> d.mmr]
  /\ DOMAIN d.objects \in SUBSET ObjectIds
  /\ d.objects \in [DOMAIN d.objects -> ObjectRecords]
  /\ DOMAIN d.ghosts \in SUBSET ObjectIds
  /\ d.ghosts \in [DOMAIN d.ghosts -> GhostRecords]
  /\ d.mmr \in Seq(Leaves)

\* The nodes and what they have swept so far.
StateType ==
  /\ epoch \in Nat \ {0}
  /\ db = [n \in Nodes |-> db[n]]
  /\ \A n \in Nodes : IsDb(db[n])

\* An order in which a node may sweep d.
IsOrder(order, d) ==
  /\ Range(order) = DOMAIN d.objects
  /\ \E D \in SUBSET ObjectIds : order \in SetToSeqs(D)

\* An order visits every object once.
LEMMA OrderFacts ==
  ASSUME NEW d, NEW order, IsDb(d), IsOrder(order, d)
  PROVE  /\ order \in Seq(ObjectIds) /\ Len(order) <= Cardinality(ObjectIds)
         /\ \A i, j \in 1 .. Len(order) : order[i] = order[j] => i = j
<1>1. PICK D \in SUBSET ObjectIds : order \in SetToSeqs(D)
  BY DEF IsOrder
<1>2. /\ order \in [1 .. Cardinality(D) -> D]
      /\ \A i, j \in DOMAIN order : order[i] = order[j] => i = j
  BY <1>1, Zenon DEF SetToSeqs, IsInjective
<1>3. /\ Cardinality(D) \in Nat /\ Cardinality(ObjectIds) \in Nat
      /\ Cardinality(D) <= Cardinality(ObjectIds)
  BY EvaporationAssumption, FS_Subset, FS_CardinalityType
<1>4. order \in Seq(ObjectIds) /\ Len(order) = Cardinality(D)
  BY <1>2, <1>3
<1> QED BY <1>2, <1>3, <1>4

\* The prefix that is scanned has no object twice either.
LEMMA ScannedFacts ==
  ASSUME NEW d, NEW order, IsDb(d), IsOrder(order, d)
  PROVE  /\ Scanned(order) \in Seq(ObjectIds)
         /\ \A i, j \in 1 .. Len(Scanned(order)) :
              Scanned(order)[i] = Scanned(order)[j] => i = j
         /\ Visited(order) \subseteq DOMAIN d.objects
<1>1. /\ order \in Seq(ObjectIds) /\ Len(order) \in Nat
      /\ \A i, j \in 1 .. Len(order) : order[i] = order[j] => i = j
  BY OrderFacts
<1>2. max_scan_per_epoch \in Nat
  BY EvaporationAssumption
<1>3. DOMAIN d.objects = {order[i] : i \in 1 .. Len(order)}
  BY <1>1 DEF IsOrder, Range
<1>4. CASE Len(order) > max_scan_per_epoch
  <2>1. PICK p : p = SubSeq(order, 1, max_scan_per_epoch)
    OBVIOUS
  <2>2. /\ p \in Seq(ObjectIds) /\ Len(p) = max_scan_per_epoch
        /\ \A i \in 1 .. Len(p) : p[i] = order[i] /\ i \in 1 .. Len(order)
    BY <1>1, <1>2, <1>4, <2>1
  <2>3. Scanned(order) = p
    BY <1>4, <2>1 DEF Scanned
  <2>4. Visited(order) \subseteq DOMAIN d.objects
    BY <1>3, <2>2, <2>3 DEF Visited, Range
  <2> QED BY <1>1, <2>2, <2>3, <2>4
<1>5. CASE ~(Len(order) > max_scan_per_epoch)
  <2>1. Scanned(order) = order
    BY <1>5 DEF Scanned
  <2> QED BY <1>1, <1>3, <2>1 DEF Visited, Range
<1> QED BY <1>4, <1>5

\* What a sweep leaves.
LEMMA SweptFields ==
  ASSUME NEW d, NEW order, IsDb(d)
  PROVE  Swept(d, order) =
           [objects |-> [id \in DOMAIN d.objects \ Gone(d, order) |->
                           IF id \in Spent(d, order) THEN InGrace(d.objects[id])
                           ELSE d.objects[id]],
            ghosts |-> [id \in DOMAIN d.ghosts \cup Gone(d, order) |->
                          IF id \in Gone(d, order) THEN GhostOf(d, order, id)
                          ELSE d.ghosts[id]],
            storage_bytes |-> [a \in Owners |-> Credited(d, Gone(d, order), a)],
            mmr |-> d.mmr \o [i \in DOMAIN Dying(d, order) |-> Leaf(Dying(d, order)[i])]]
<1> DEFINE O == [id \in DOMAIN d.objects \ Gone(d, order) |->
                   IF id \in Spent(d, order) THEN InGrace(d.objects[id]) ELSE d.objects[id]]
           G == [id \in DOMAIN d.ghosts \cup Gone(d, order) |->
                   IF id \in Gone(d, order) THEN GhostOf(d, order, id) ELSE d.ghosts[id]]
           B == [a \in Owners |-> Credited(d, Gone(d, order), a)]
           M == d.mmr \o [i \in DOMAIN Dying(d, order) |-> Leaf(Dying(d, order)[i])]
<1>1. Swept(d, order) = [d EXCEPT !.objects = O, !.ghosts = G, !.storage_bytes = B, !.mmr = M]
  BY DEF Swept
<1> HIDE DEF O, G, B, M
<1>2. d = [objects |-> d.objects, ghosts |-> d.ghosts,
           storage_bytes |-> d.storage_bytes, mmr |-> d.mmr]
  BY DEF IsDb
<1>3. Swept(d, order) = [objects |-> O, ghosts |-> G, storage_bytes |-> B, mmr |-> M]
  BY <1>1, <1>2
<1> QED BY <1>3 DEF O, G, B, M

\* What a transaction leaves.
LEMMA CreateFields ==
  ASSUME NEW d, IsDb(d), NEW id, NEW owner, NEW energy, id \notin DOMAIN d.objects
  PROVE  WithCreate(d, id, owner, energy) =
           [objects |-> With(d.objects, id, Object(owner, energy, "Active")),
            ghosts |-> d.ghosts,
            storage_bytes |-> [d.storage_bytes EXCEPT ![owner] = @ + BASE_OBJECT_BYTES + DataBytes],
            mmr |-> d.mmr]
<1> DEFINE O == With(d.objects, id, Object(owner, energy, "Active"))
           B == [d.storage_bytes EXCEPT ![owner] = @ + BASE_OBJECT_BYTES + DataBytes]
<1>1. WithCreate(d, id, owner, energy) = [d EXCEPT !.objects = O, !.storage_bytes = B]
  BY DEF WithCreate
<1> HIDE DEF O, B
<1>2. d = [objects |-> d.objects, ghosts |-> d.ghosts,
           storage_bytes |-> d.storage_bytes, mmr |-> d.mmr]
  BY DEF IsDb
<1>3. WithCreate(d, id, owner, energy) =
        [objects |-> O, ghosts |-> d.ghosts, storage_bytes |-> B, mmr |-> d.mmr]
  BY <1>1, <1>2
<1> QED BY <1>3 DEF O, B

\* The fields of a database after a refresh and after a resurrection.
LEMMA RefreshFields ==
  ASSUME NEW d, IsDb(d), NEW id, NEW deposit, id \in DOMAIN d.objects
  PROVE  WithRefresh(d, id, deposit) =
           [objects |-> [d.objects EXCEPT ![id] = Refreshed(d.objects[id], deposit)],
            ghosts |-> d.ghosts, storage_bytes |-> d.storage_bytes, mmr |-> d.mmr]
<1> DEFINE O == [d.objects EXCEPT ![id] = Refreshed(d.objects[id], deposit)]
<1>1. WithRefresh(d, id, deposit) = [d EXCEPT !.objects = O]
  BY DEF WithRefresh
<1> HIDE DEF O
<1>2. d = [objects |-> d.objects, ghosts |-> d.ghosts,
           storage_bytes |-> d.storage_bytes, mmr |-> d.mmr]
  BY DEF IsDb
<1>3. WithRefresh(d, id, deposit) =
        [objects |-> O, ghosts |-> d.ghosts, storage_bytes |-> d.storage_bytes, mmr |-> d.mmr]
  BY <1>1, <1>2
<1> QED BY <1>3 DEF O

LEMMA ResurrectFields ==
  ASSUME NEW d, IsDb(d), NEW id, NEW deposit, id \in DOMAIN d.ghosts \ DOMAIN d.objects
  PROVE  WithRefresh(d, id, deposit) =
           [objects |-> With(d.objects, id, Object(d.ghosts[id].owner, deposit, "Resurrected")),
            ghosts |-> Less(d.ghosts, {id}), storage_bytes |-> d.storage_bytes, mmr |-> d.mmr]
<1> DEFINE O == With(d.objects, id, Object(d.ghosts[id].owner, deposit, "Resurrected"))
           G == Less(d.ghosts, {id})
<1>1. WithRefresh(d, id, deposit) = Resurrected(d, id, deposit)
  BY DEF WithRefresh
<1>2. Resurrected(d, id, deposit) = [d EXCEPT !.objects = O, !.ghosts = G]
  BY DEF Resurrected
<1> HIDE DEF O, G
<1>3. d = [objects |-> d.objects, ghosts |-> d.ghosts,
           storage_bytes |-> d.storage_bytes, mmr |-> d.mmr]
  BY DEF IsDb
<1>4. WithRefresh(d, id, deposit) =
        [objects |-> O, ghosts |-> G, storage_bytes |-> d.storage_bytes, mmr |-> d.mmr]
  BY <1>1, <1>2, <1>3
<1> QED BY <1>4 DEF O, G

\* The ghosts of d lead to their leaves.
GhostsLead(d) ==
  \A id \in DOMAIN d.ghosts :
    /\ d.ghosts[id].mmr_position \in DOMAIN d.mmr
    /\ d.mmr[d.ghosts[id].mmr_position] = [id |-> id, epoch |-> d.ghosts[id].evaporated_at]
    /\ \A i \in DOMAIN d.mmr : i > d.ghosts[id].mmr_position => d.mmr[i].id # id

\* A record with the right fields is a database.
LEMMA DbOfFields ==
  ASSUME NEW d, NEW O, NEW G, NEW B, NEW M,
         d = [objects |-> O, ghosts |-> G, storage_bytes |-> B, mmr |-> M],
         DOMAIN O \in SUBSET ObjectIds, O \in [DOMAIN O -> ObjectRecords],
         DOMAIN G \in SUBSET ObjectIds, G \in [DOMAIN G -> GhostRecords], M \in Seq(Leaves)
  PROVE  IsDb(d) /\ d.objects = O /\ d.ghosts = G /\ d.storage_bytes = B /\ d.mmr = M
<1>1. d.objects = O /\ d.ghosts = G /\ d.storage_bytes = B /\ d.mmr = M
  OBVIOUS
<1> QED BY <1>1 DEF IsDb

\* Objects after creation, refresh and the start of grace.
LEMMA NewObject ==
  ASSUME NEW owner \in Owners, NEW energy \in 1 .. MaxEnergy,
         NEW state \in {"Active", "Resurrected"}, epoch \in Nat
  PROVE  /\ Object(owner, energy, state) \in ObjectRecords
         /\ Live(Object(owner, energy, state))
         /\ Object(owner, energy, state).energy = energy
         /\ Object(owner, energy, state).charge = energy
         /\ Object(owner, energy, state).last_refreshed = epoch
BY EnergyFacts DEF Object, ObjectRecords, Live

LEMMA RefreshedFacts ==
  ASSUME NEW obj \in ObjectRecords, NEW deposit \in 1 .. MaxEnergy, epoch \in Nat
  PROVE  /\ Refreshed(obj, deposit) \in ObjectRecords
         /\ Live(Refreshed(obj, deposit))
         /\ Refreshed(obj, deposit).energy = Refreshed(obj, deposit).charge
         /\ Refreshed(obj, deposit).charge =
              IF Live(obj) THEN SaturatingAdd(obj.energy, deposit) ELSE deposit
         /\ Refreshed(obj, deposit).last_refreshed = epoch
<1>1. PICK energy : energy = IF Live(obj) THEN SaturatingAdd(obj.energy, deposit) ELSE deposit
  OBVIOUS
<1>2. energy \in 1 .. MaxEnergy
  BY <1>1, EnergyFacts DEF ObjectRecords
<1>3. PICK st \in {"Active", "Resurrected"} : st = IF Live(obj) THEN obj.state ELSE "Active"
  BY DEF Live
<1>4. obj = [owner |-> obj.owner, energy |-> obj.energy, charge |-> obj.charge,
             last_refreshed |-> obj.last_refreshed, state |-> obj.state,
             grace_epoch |-> obj.grace_epoch]
  BY DEF ObjectRecords
<1>5. PICK r : r = [owner |-> obj.owner, energy |-> energy, charge |-> energy,
                    last_refreshed |-> epoch, state |-> st, grace_epoch |-> 0]
  OBVIOUS
<1>6. Refreshed(obj, deposit) = r
  <2>1. Refreshed(obj, deposit) =
          [obj EXCEPT !.energy = energy, !.charge = energy, !.last_refreshed = epoch,
                      !.state = IF Live(obj) THEN obj.state ELSE "Active", !.grace_epoch = 0]
    BY <1>1 DEF Refreshed
  <2>2. Refreshed(obj, deposit) =
          [obj EXCEPT !.energy = energy, !.charge = energy, !.last_refreshed = epoch,
                      !.state = st, !.grace_epoch = 0]
    BY <1>3, <2>1
  <2> QED BY <1>4, <1>5, <2>2
<1>7. r \in ObjectRecords /\ r.energy = energy /\ r.charge = energy
      /\ r.last_refreshed = epoch /\ r.state = st
  BY <1>2, <1>5 DEF ObjectRecords
<1> QED BY <1>1, <1>6, <1>7 DEF Live

LEMMA InGraceFacts ==
  ASSUME NEW obj \in ObjectRecords, epoch \in Nat
  PROVE  /\ InGrace(obj) \in ObjectRecords
         /\ InGrace(obj).state = "Grace" /\ InGrace(obj).grace_epoch = epoch
         /\ InGrace(obj).charge = obj.charge
         /\ InGrace(obj).last_refreshed = obj.last_refreshed
<1>1. /\ obj.owner \in Owners /\ obj.charge \in 1 .. MaxEnergy /\ obj.last_refreshed \in Nat
      /\ obj = [owner |-> obj.owner, energy |-> obj.energy, charge |-> obj.charge,
                last_refreshed |-> obj.last_refreshed, state |-> obj.state,
                grace_epoch |-> obj.grace_epoch]
  BY DEF ObjectRecords
<1>2. PICK r : r = [owner |-> obj.owner, energy |-> 0, charge |-> obj.charge,
                    last_refreshed |-> obj.last_refreshed, state |-> "Grace",
                    grace_epoch |-> epoch]
  OBVIOUS
<1>3. InGrace(obj) = r
  <2>1. InGrace(obj) = [obj EXCEPT !.state = "Grace", !.grace_epoch = epoch, !.energy = 0]
    BY DEF InGrace
  <2> QED BY <1>1, <1>2, <2>1
<1>4. 0 \in 0 .. MaxEnergy
  BY EnergyFacts
<1>5. r \in ObjectRecords
  BY <1>1, <1>2, <1>4 DEF ObjectRecords
<1> QED BY <1>2, <1>3, <1>5

\* Creating an object.
LEMMA CreateKeeps ==
  ASSUME NEW d, IsDb(d), GhostsLead(d), epoch \in Nat,
         NEW id \in ObjectIds, NEW owner \in Owners, NEW energy \in Energies
  PROVE  /\ IsDb(WithCreate(d, id, owner, energy))
         /\ GhostsLead(WithCreate(d, id, owner, energy))
<1>1. CASE id \in DOMAIN d.objects
  BY <1>1 DEF WithCreate
<1>2. CASE id \notin DOMAIN d.objects
  <2>1. PICK o : o = Object(owner, energy, "Active")
    OBVIOUS
  <2>2. o \in ObjectRecords
    BY <2>1, NewObject, EnergyFacts
  <2>3. PICK e : e = WithCreate(d, id, owner, energy)
    OBVIOUS
  <2>4. PICK O, B : e = [objects |-> O, ghosts |-> d.ghosts, storage_bytes |-> B, mmr |-> d.mmr]
                    /\ O = With(d.objects, id, o)
    BY <1>2, <2>1, <2>3, CreateFields
  <2>5. DOMAIN O = DOMAIN d.objects \cup {id} /\ O \in [DOMAIN d.objects \cup {id} -> ObjectRecords]
    BY <2>2, <2>4, WithFacts DEF IsDb
  <2>6. IsDb(e) /\ e.ghosts = d.ghosts /\ e.mmr = d.mmr
    BY <2>4, <2>5, DbOfFields DEF IsDb
  <2>7. GhostsLead(e)
    BY <2>6 DEF GhostsLead
  <2> QED BY <2>3, <2>6, <2>7
<1> QED BY <1>1, <1>2

\* Refreshing an object, or resurrecting it from its ghost.
LEMMA RefreshKeeps ==
  ASSUME NEW d, IsDb(d), GhostsLead(d), epoch \in Nat,
         NEW id \in ObjectIds, NEW deposit \in Energies
  PROVE  /\ IsDb(WithRefresh(d, id, deposit))
         /\ GhostsLead(WithRefresh(d, id, deposit))
<1>0. deposit \in 1 .. MaxEnergy
  BY EnergyFacts
<1>1. PICK e : e = WithRefresh(d, id, deposit)
  OBVIOUS
<1>2. CASE id \in DOMAIN d.objects
  <2>1. d.objects[id] \in ObjectRecords
    BY <1>2 DEF IsDb
  <2>2. Refreshed(d.objects[id], deposit) \in ObjectRecords
    BY <1>0, <2>1, RefreshedFacts
  <2>3. PICK O : e = [objects |-> O, ghosts |-> d.ghosts,
                      storage_bytes |-> d.storage_bytes, mmr |-> d.mmr]
                 /\ O = [d.objects EXCEPT ![id] = Refreshed(d.objects[id], deposit)]
    BY <1>1, <1>2, RefreshFields
  <2>4. DOMAIN O = DOMAIN d.objects /\ O \in [DOMAIN d.objects -> ObjectRecords]
    BY <2>2, <2>3 DEF IsDb
  <2>5. IsDb(e) /\ e.ghosts = d.ghosts /\ e.mmr = d.mmr
    BY <2>3, <2>4, DbOfFields DEF IsDb
  <2>6. GhostsLead(e)
    BY <2>5 DEF GhostsLead
  <2> QED BY <1>1, <2>5, <2>6
<1>3. CASE id \in DOMAIN d.ghosts \ DOMAIN d.objects
  <2>1. PICK o : o = Object(d.ghosts[id].owner, deposit, "Resurrected")
    OBVIOUS
  <2>2. d.ghosts[id].owner \in Owners
    BY <1>3 DEF IsDb, GhostRecords
  <2>3. o \in ObjectRecords
    BY <1>0, <2>1, <2>2, NewObject
  <2>4. PICK O, G : e = [objects |-> O, ghosts |-> G,
                         storage_bytes |-> d.storage_bytes, mmr |-> d.mmr]
                    /\ O = With(d.objects, id, o) /\ G = Less(d.ghosts, {id})
    BY <1>1, <1>3, <2>1, ResurrectFields
  <2>5. DOMAIN O = DOMAIN d.objects \cup {id} /\ O \in [DOMAIN d.objects \cup {id} -> ObjectRecords]
    BY <2>3, <2>4, WithFacts DEF IsDb
  <2>6. /\ DOMAIN G = DOMAIN d.ghosts \ {id} /\ G \in [DOMAIN d.ghosts \ {id} -> GhostRecords]
        /\ \A x \in DOMAIN G : G[x] = d.ghosts[x]
    BY <2>4 DEF Less, IsDb
  <2>7. IsDb(e) /\ e.ghosts = G /\ e.mmr = d.mmr
    BY <2>4, <2>5, <2>6, DbOfFields DEF IsDb
  <2>8. GhostsLead(e)
    BY <2>6, <2>7 DEF GhostsLead
  <2> QED BY <1>1, <2>7, <2>8
<1>4. CASE id \notin DOMAIN d.objects /\ id \notin DOMAIN d.ghosts
  BY <1>4 DEF WithRefresh
<1> QED BY <1>2, <1>3, <1>4

\* The objects that evaporate, in the order of the sweep.
LEMMA DyingFacts ==
  ASSUME NEW d, NEW order, IsDb(d), IsOrder(order, d)
  PROVE  /\ Gone(d, order) \subseteq DOMAIN d.objects
         /\ Dying(d, order) \in Seq(ObjectIds)
         /\ \A k \in 1 .. Len(Dying(d, order)) : Dying(d, order)[k] \in Gone(d, order)
         /\ \A id \in Gone(d, order) : \E k \in 1 .. Len(Dying(d, order)) : Dying(d, order)[k] = id
         /\ \A k, l \in 1 .. Len(Dying(d, order)) :
              Dying(d, order)[k] = Dying(d, order)[l] => k = l
<1>1. PICK S : S = Scanned(order)
  OBVIOUS
<1>2. /\ S \in Seq(ObjectIds)
      /\ \A i, j \in 1 .. Len(S) : S[i] = S[j] => i = j
      /\ {S[i] : i \in DOMAIN S} \subseteq DOMAIN d.objects
  BY <1>1, ScannedFacts DEF Visited, Range
<1>3. Gone(d, order) \subseteq {S[i] : i \in DOMAIN S}
  BY <1>1 DEF Gone, Visited, Range
<1>4. PICK I : I = {i \in DOMAIN S : S[i] \in Gone(d, order)}
  OBVIOUS
<1>0. I \in SUBSET (1 .. Len(S))
  BY <1>2, <1>4
<1>5. PICK t : t = Dying(d, order)
  OBVIOUS
<1>6. t = Selected(S, I)
  BY <1>1, <1>4, <1>5 DEF Dying
<1>7. t \in Seq(ObjectIds) /\ KeptOf(t, S, I, Len(S))
  BY <1>0, <1>2, <1>6, SelectedKept
<1>8. \A k \in 1 .. Len(t) : t[k] \in Gone(d, order)
  BY <1>4, <1>7 DEF KeptOf
<1>9. ASSUME NEW id \in Gone(d, order) PROVE \E k \in 1 .. Len(t) : t[k] = id
  <2>1. PICK i \in DOMAIN S : S[i] = id
    BY <1>3
  <2>2. i \in I /\ i <= Len(S)
    BY <1>2, <1>4, <2>1
  <2> QED BY <1>7, <2>1, <2>2 DEF KeptOf
<1>10. \A k, l \in 1 .. Len(t) : t[k] = t[l] => k = l
  BY <1>2, <1>7 DEF KeptOf
<1> QED BY <1>2, <1>3, <1>5, <1>7, <1>8, <1>9, <1>10

LEMMA ConcatFacts ==
  ASSUME NEW T, NEW s \in Seq(T), NEW t \in Seq(T)
  PROVE  /\ s \o t \in Seq(T) /\ Len(s \o t) = Len(s) + Len(t)
         /\ \A i \in 1 .. Len(s) : (s \o t)[i] = s[i]
         /\ \A i \in 1 .. Len(t) : (s \o t)[Len(s) + i] = t[i]
BY ConcatProperties

\* The sweep.
LEMMA SweptKeeps ==
  ASSUME NEW d, NEW order, IsDb(d), GhostsLead(d), IsOrder(order, d), epoch \in Nat
  PROVE  IsDb(Swept(d, order)) /\ GhostsLead(Swept(d, order))
<1>1. PICK gone : gone = Gone(d, order)
  OBVIOUS
<1>2. PICK t \in Seq(ObjectIds) : t = Dying(d, order)
  BY DyingFacts
<1>3. /\ gone \subseteq DOMAIN d.objects
      /\ \A k \in 1 .. Len(t) : t[k] \in gone
      /\ \A id \in gone : \E k \in 1 .. Len(t) : t[k] = id
      /\ \A k, l \in 1 .. Len(t) : t[k] = t[l] => k = l
      /\ DOMAIN t = 1 .. Len(t) /\ Len(t) \in Nat
  BY <1>1, <1>2, DyingFacts
<1>4. PICK e : e = Swept(d, order)
  OBVIOUS
<1>5. PICK O, G, B, M :
        /\ e = [objects |-> O, ghosts |-> G, storage_bytes |-> B, mmr |-> M]
        /\ O = [id \in DOMAIN d.objects \ gone |->
                  IF id \in Spent(d, order) THEN InGrace(d.objects[id]) ELSE d.objects[id]]
        /\ G = [id \in DOMAIN d.ghosts \cup gone |->
                  IF id \in gone THEN GhostOf(d, order, id) ELSE d.ghosts[id]]
        /\ M = d.mmr \o [i \in DOMAIN t |-> Leaf(t[i])]
  BY <1>1, <1>2, <1>4, SweptFields
<1>6. DOMAIN O \in SUBSET ObjectIds /\ O \in [DOMAIN O -> ObjectRecords]
  <2>1. \A id \in DOMAIN d.objects : d.objects[id] \in ObjectRecords
    BY DEF IsDb
  <2>2. \A obj \in ObjectRecords : InGrace(obj) \in ObjectRecords
    BY InGraceFacts
  <2>3. DOMAIN O = DOMAIN d.objects \ gone
    BY <1>5
  <2>4. \A id \in DOMAIN O : O[id] \in ObjectRecords
    BY <1>5, <2>1, <2>2, <2>3
  <2>5. O = [id \in DOMAIN O |-> O[id]]
    BY <1>5
  <2> QED BY <2>3, <2>4, <2>5 DEF IsDb
<1>7. PICK L : L = [i \in DOMAIN t |-> Leaf(t[i])]
  OBVIOUS
<1>8. L \in Seq(Leaves) /\ Len(L) = Len(t) /\ \A i \in 1 .. Len(t) : L[i] = [id |-> t[i], epoch |-> epoch]
  <2>1. \A i \in 1 .. Len(t) : t[i] \in ObjectIds
    BY <1>2
  <2>2. \A i \in 1 .. Len(t) : Leaf(t[i]) \in Leaves
    BY <2>1 DEF Leaf, Leaves
  <2>3. L = [i \in 1 .. Len(t) |-> Leaf(t[i])]
    BY <1>3, <1>7
  <2>4. L \in [1 .. Len(t) -> Leaves]
    BY <2>2, <2>3
  <2>5. L \in Seq(Leaves) /\ Len(L) = Len(t)
    BY <1>3, <2>4
  <2> QED BY <2>3, <2>5 DEF Leaf
<1>9. d.mmr \in Seq(Leaves) /\ Len(d.mmr) \in Nat
  BY DEF IsDb
<1>10. /\ M \in Seq(Leaves) /\ Len(M) = Len(d.mmr) + Len(t)
       /\ \A i \in 1 .. Len(d.mmr) : M[i] = d.mmr[i]
       /\ \A i \in 1 .. Len(t) : M[Len(d.mmr) + i] = [id |-> t[i], epoch |-> epoch]
  <2>1. M = d.mmr \o L
    BY <1>5, <1>7
  <2>2. /\ M \in Seq(Leaves) /\ Len(M) = Len(d.mmr) + Len(t)
        /\ \A i \in 1 .. Len(d.mmr) : M[i] = d.mmr[i]
        /\ \A i \in 1 .. Len(t) : M[Len(d.mmr) + i] = L[i]
    BY <1>3, <1>8, <1>9, <2>1, ConcatFacts
  <2> QED BY <1>8, <2>2
<1>11. ASSUME NEW id \in gone
       PROVE  \E k \in 1 .. Len(t) :
                /\ t[k] = id
                /\ GhostOf(d, order, id) = [owner |-> d.objects[id].owner, evaporated_at |-> epoch,
                                            mmr_position |-> Len(d.mmr) + k]
  <2>1. PICK k : k = CHOOSE i \in DOMAIN t : t[i] = id
    OBVIOUS
  <2>2. k \in 1 .. Len(t) /\ t[k] = id
    <3>1. \E i \in DOMAIN t : t[i] = id
      BY <1>3
    <3>2. k \in DOMAIN t /\ t[k] = id
      BY <2>1, <3>1, Zenon
    <3> QED BY <1>3, <3>2
  <2>3. GhostOf(d, order, id) = [owner |-> d.objects[id].owner, evaporated_at |-> epoch,
                                 mmr_position |-> Len(d.mmr) + k]
    BY <1>2, <2>1 DEF GhostOf, Position
  <2> QED BY <2>2, <2>3
<1>12. DOMAIN G = DOMAIN d.ghosts \cup gone /\ G \in [DOMAIN G -> GhostRecords]
  <2>1. \A id \in gone : GhostOf(d, order, id) \in GhostRecords
    <3> SUFFICES ASSUME NEW id \in gone PROVE GhostOf(d, order, id) \in GhostRecords
      OBVIOUS
    <3>1. PICK k \in 1 .. Len(t) :
            GhostOf(d, order, id) = [owner |-> d.objects[id].owner, evaporated_at |-> epoch,
                                     mmr_position |-> Len(d.mmr) + k]
      BY <1>11
    <3>2. d.objects[id].owner \in Owners
      BY <1>3 DEF IsDb, ObjectRecords
    <3>3. Len(d.mmr) + k \in Nat
      BY <1>3, <1>9
    <3> QED BY <3>1, <3>2, <3>3 DEF GhostRecords
  <2>2. \A id \in DOMAIN d.ghosts : d.ghosts[id] \in GhostRecords
    BY DEF IsDb
  <2> QED BY <1>5, <2>1, <2>2
<1>13. IsDb(e) /\ e.ghosts = G /\ e.mmr = M
  <2>1. DOMAIN G \in SUBSET ObjectIds
    BY <1>3, <1>12 DEF IsDb
  <2>2. e = [objects |-> O, ghosts |-> G, storage_bytes |-> B, mmr |-> M]
    BY <1>5
  <2>3. M \in Seq(Leaves)
    BY <1>10
  <2> QED BY <1>6, <1>12, <2>1, <2>2, <2>3, DbOfFields
<1>14. DOMAIN d.mmr = 1 .. Len(d.mmr) /\ DOMAIN M = 1 .. (Len(d.mmr) + Len(t))
  BY <1>9, <1>10
<1>15. ASSUME NEW id \in DOMAIN G
       PROVE  /\ G[id].mmr_position \in DOMAIN M
              /\ M[G[id].mmr_position] = [id |-> id, epoch |-> G[id].evaporated_at]
              /\ \A i \in DOMAIN M : i > G[id].mmr_position => M[i].id # id
  <2>1. CASE id \in gone
    <3>1. PICK k \in 1 .. Len(t) :
            /\ t[k] = id
            /\ G[id] = [owner |-> d.objects[id].owner, evaporated_at |-> epoch,
                        mmr_position |-> Len(d.mmr) + k]
      BY <1>5, <1>11, <1>12, <2>1
    <3>2. G[id].mmr_position = Len(d.mmr) + k /\ G[id].evaporated_at = epoch
      BY <3>1
    <3>3. ASSUME NEW i \in DOMAIN M, i > Len(d.mmr) + k PROVE M[i].id # id
      <4>1. PICK j \in 1 .. Len(t) : i = Len(d.mmr) + j /\ j > k
        <5>1. i - Len(d.mmr) \in 1 .. Len(t) /\ i = Len(d.mmr) + (i - Len(d.mmr))
          BY <1>3, <1>9, <1>14, <3>3
        <5> QED BY <1>9, <3>3, <5>1
      <4>0. M[i] = [id |-> t[j], epoch |-> epoch]
        BY <1>10, <4>1
      <4>2. M[i].id = t[j]
        BY <4>0
      <4>3. t[j] # t[k]
        BY <1>3, <4>1
      <4> QED BY <3>1, <4>2, <4>3
    <3>4. Len(d.mmr) + k \in DOMAIN M
      BY <1>3, <1>9, <1>14
    <3> QED BY <1>10, <3>1, <3>2, <3>3, <3>4
  <2>2. CASE id \notin gone
    <3>1. id \in DOMAIN d.ghosts /\ G[id] = d.ghosts[id]
      BY <1>5, <1>12, <2>2
    <3>2. PICK p : p = d.ghosts[id].mmr_position
      OBVIOUS
    <3>3. /\ p \in 1 .. Len(d.mmr)
          /\ d.mmr[p] = [id |-> id, epoch |-> d.ghosts[id].evaporated_at]
          /\ \A i \in 1 .. Len(d.mmr) : i > p => d.mmr[i].id # id
      BY <1>14, <3>1, <3>2 DEF GhostsLead
    <3>4. ASSUME NEW i \in DOMAIN M, i > p PROVE M[i].id # id
      <4>1. CASE i \in 1 .. Len(d.mmr)
        BY <1>10, <3>3, <3>4, <4>1
      <4>2. CASE i \notin 1 .. Len(d.mmr)
        <5>1. i - Len(d.mmr) \in 1 .. Len(t) /\ i = Len(d.mmr) + (i - Len(d.mmr))
          BY <1>3, <1>9, <1>14, <4>2
        <5>2. PICK j \in 1 .. Len(t) : i = Len(d.mmr) + j
          BY <5>1
        <5>0. M[i] = [id |-> t[j], epoch |-> epoch]
          BY <1>10, <5>2
        <5>3. M[i].id = t[j] /\ t[j] \in gone
          BY <1>3, <5>0
        <5> QED BY <2>2, <5>3
      <4> QED BY <4>1, <4>2
    <3>5. p \in DOMAIN M /\ M[p] = d.mmr[p]
      BY <1>3, <1>9, <1>10, <1>14, <3>3
    <3> QED BY <3>1, <3>2, <3>3, <3>4, <3>5
  <2> QED BY <2>1, <2>2
<1>16. GhostsLead(e)
  BY <1>13, <1>15 DEF GhostsLead
<1> QED BY <1>4, <1>13, <1>16

-----------------------------------------------------------------------------
(* Blocks at all nodes.                                                    *)

\* The part of a block after its transaction: each node sweeps in some order.
LEMMA SweepOrders ==
  ASSUME NEW after, \A n \in Nodes : IsDb(after[n]), Sweep(after), StateType
  PROVE  /\ epoch' = epoch + 1 /\ epoch <= MaxEpoch
         /\ db' = [n \in Nodes |-> db'[n]]
         /\ \A n \in Nodes : \E order : /\ IsOrder(order, after[n])
                                        /\ db'[n] = Swept(after[n], order)
<1>1. PICK order \in [Nodes -> UNION {SetToSeqs(DOMAIN after[n].objects) : n \in Nodes}] :
        /\ \A n \in Nodes : Range(order[n]) = DOMAIN after[n].objects
        /\ db' = [n \in Nodes |-> Swept(after[n], order[n])]
  BY DEF Sweep
<1>2. ASSUME NEW n \in Nodes PROVE IsOrder(order[n], after[n])
  <2>1. PICK m \in Nodes : order[n] \in SetToSeqs(DOMAIN after[m].objects)
    BY <1>1
  <2>2. DOMAIN after[m].objects \in SUBSET ObjectIds
    BY DEF IsDb
  <2> QED BY <1>1, <2>1, <2>2 DEF IsOrder
<1>3. \A n \in Nodes : db'[n] = Swept(after[n], order[n])
  BY <1>1
<1>4. db' = [n \in Nodes |-> db'[n]]
  BY <1>1
<1>5. epoch' = epoch + 1 /\ epoch <= MaxEpoch
  BY DEF Sweep
<1> QED BY <1>2, <1>3, <1>4, <1>5

\* The three kinds of blocks: each is a transaction at every node, and a sweep.
LEMMA BlockCases ==
  ASSUME EvaporationNext, StateType
  PROVE  \E after :
           /\ Sweep(after)
           /\ \/ after = db
              \/ \E id \in ObjectIds, owner \in Owners, energy \in Energies :
                   after = [n \in Nodes |-> WithCreate(db[n], id, owner, energy)]
              \/ \E id \in ObjectIds, deposit \in Energies :
                   after = [n \in Nodes |-> WithRefresh(db[n], id, deposit)]
BY DEF EvaporationNext, CreateObject, Refresh, EmptyBlock

\* Every ghost leads to its leaf: the inductive invariant.
GhostInv == StateType /\ \A n \in Nodes : GhostsLead(db[n])

\* A sweep in any order keeps ghosts provable.
LEMMA SweepKeepsGhosts ==
  ASSUME GhostInv, NEW after, \A n \in Nodes : IsDb(after[n]) /\ GhostsLead(after[n]),
         Sweep(after)
  PROVE  GhostInv'
<1>1. StateType /\ epoch \in Nat
  BY DEF GhostInv, StateType
<1>2. ASSUME NEW n \in Nodes PROVE IsDb(db'[n]) /\ GhostsLead(db'[n])
  <2>1. PICK order : IsOrder(order, after[n]) /\ db'[n] = Swept(after[n], order)
    BY <1>1, SweepOrders
  <2> QED BY <1>1, <2>1, SweptKeeps
<1>3. epoch' \in Nat \ {0} /\ db' = [n \in Nodes |-> db'[n]]
  BY <1>1, SweepOrders
<1> QED BY <1>2, <1>3 DEF GhostInv, StateType, IsDb, GhostsLead

\* Every ghost points to the last leaf of its object, on every node, for every
\* order of the sweeps (evaporate_object).
THEOREM GhostInvariant == EvaporationSpec => []GhostInv
<1>1. EvaporationInit => GhostInv
  <2> SUFFICES ASSUME EvaporationInit PROVE GhostInv
    OBVIOUS
  <2>1. PICK O : O = [id \in {} |-> 0]
    OBVIOUS
  <2>2. DOMAIN O = {} /\ O \in [{} -> ObjectRecords] /\ O \in [{} -> GhostRecords]
    BY <2>1
  <2>3. PICK B : EmptyDb = [objects |-> O, ghosts |-> O, storage_bytes |-> B, mmr |-> <<>>]
    BY <2>1 DEF EmptyDb
  <2>4. IsDb(EmptyDb) /\ EmptyDb.ghosts = O
    <3>1. DOMAIN O \in SUBSET ObjectIds /\ <<>> \in Seq(Leaves)
      BY <2>2
    <3>2. O \in [DOMAIN O -> ObjectRecords] /\ O \in [DOMAIN O -> GhostRecords]
      BY <2>2
    <3>3. PICK e : e = EmptyDb
      OBVIOUS
    <3>4. e = [objects |-> O, ghosts |-> O, storage_bytes |-> B, mmr |-> <<>>]
      BY <2>3, <3>3
    <3>5. PICK M : M = <<>>
      OBVIOUS
    <3>6. IsDb(e) /\ e.ghosts = O
      BY <3>1, <3>2, <3>4, <3>5, DbOfFields
    <3> QED BY <3>3, <3>6
  <2>5. GhostsLead(EmptyDb)
    BY <2>2, <2>4 DEF GhostsLead
  <2>6. db = [n \in Nodes |-> EmptyDb] /\ epoch = 1
    BY DEF EvaporationInit
  <2>7. db = [n \in Nodes |-> db[n]] /\ \A n \in Nodes : db[n] = EmptyDb
    BY <2>6
  <2> QED BY <2>4, <2>5, <2>6, <2>7 DEF GhostInv, StateType
<1>2. GhostInv /\ [EvaporationNext]_evaporationVars => GhostInv'
  <2> SUFFICES ASSUME GhostInv, [EvaporationNext]_evaporationVars PROVE GhostInv'
    OBVIOUS
  <2>1. CASE UNCHANGED evaporationVars
    BY <2>1 DEF evaporationVars, GhostInv, StateType, GhostsLead, IsDb
  <2>2. CASE EvaporationNext
    <3>0. StateType /\ epoch \in Nat /\ \A n \in Nodes : IsDb(db[n]) /\ GhostsLead(db[n])
      BY DEF GhostInv, StateType
    <3>1. PICK after :
            /\ Sweep(after)
            /\ \/ after = db
               \/ \E id \in ObjectIds, owner \in Owners, energy \in Energies :
                    after = [n \in Nodes |-> WithCreate(db[n], id, owner, energy)]
               \/ \E id \in ObjectIds, deposit \in Energies :
                    after = [n \in Nodes |-> WithRefresh(db[n], id, deposit)]
      BY <2>2, <3>0, BlockCases
    <3>2. \A n \in Nodes : IsDb(after[n]) /\ GhostsLead(after[n])
      BY <3>0, <3>1, CreateKeeps, RefreshKeeps
    <3> QED BY <3>1, <3>2, SweepKeepsGhosts
  <2> QED BY <2>1, <2>2
<1> QED BY <1>1, <1>2, PTL DEF EvaporationSpec

\* GhostsProvable: the position in a ghost leads to the leaf of the evaporation
\* that made it, whatever was resurrected and evaporated again since.
THEOREM GhostsProvableHolds == EvaporationSpec => []GhostsProvable
<1>1. GhostInv => GhostsProvable
  BY DEF GhostInv, GhostsLead, GhostsProvable
<1> QED BY <1>1, GhostInvariant, PTL

-----------------------------------------------------------------------------
(* Nodes sweep in different orders.                                        *)

\* One sweep may visit every object there can be: max_scan_per_epoch is out of
\* reach.  Beyond it the nodes visit different objects.
ScanCoversAll == Cardinality(ObjectIds) <= max_scan_per_epoch

\* What two nodes agree on: everything but the positions of the leaves.
AgreeOn(d, e) ==
  /\ d.objects = e.objects /\ d.storage_bytes = e.storage_bytes
  /\ DOMAIN d.ghosts = DOMAIN e.ghosts
  /\ \A id \in DOMAIN d.ghosts : d.ghosts[id].owner = e.ghosts[id].owner

\* Within the scan limit a sweep visits every object.
LEMMA VisitsAll ==
  ASSUME NEW d, NEW order, IsDb(d), IsOrder(order, d), ScanCoversAll
  PROVE  Visited(order) = DOMAIN d.objects
<1>1. /\ order \in Seq(ObjectIds) /\ Len(order) \in Nat
      /\ Len(order) <= Cardinality(ObjectIds)
  BY OrderFacts
<1>2. max_scan_per_epoch \in Nat /\ Cardinality(ObjectIds) \in Nat
  BY EvaporationAssumption, FS_CardinalityType
<1>3. Scanned(order) = order
  BY <1>1, <1>2 DEF Scanned, ScanCoversAll
<1> QED BY <1>3 DEF Visited, IsOrder

\* Nodes that agree still do after the same transaction and after sweeps in
\* different orders.
LEMMA FieldsAgree ==
  ASSUME NEW O, NEW B, NEW G, NEW H, NEW M, NEW N, NEW d, NEW e,
         d = [objects |-> O, ghosts |-> G, storage_bytes |-> B, mmr |-> M],
         e = [objects |-> O, ghosts |-> H, storage_bytes |-> B, mmr |-> N],
         DOMAIN G = DOMAIN H, \A id \in DOMAIN G : G[id].owner = H[id].owner
  PROVE  AgreeOn(d, e)
<1>1. /\ d.objects = O /\ d.ghosts = G /\ d.storage_bytes = B
      /\ e.objects = O /\ e.ghosts = H /\ e.storage_bytes = B
  OBVIOUS
<1> QED BY <1>1 DEF AgreeOn

LEMMA CreateAgrees ==
  ASSUME NEW d, NEW e, IsDb(d), IsDb(e), AgreeOn(d, e), NEW id, NEW owner, NEW energy
  PROVE  AgreeOn(WithCreate(d, id, owner, energy), WithCreate(e, id, owner, energy))
<1>1. CASE id \in DOMAIN d.objects
  BY <1>1 DEF WithCreate, AgreeOn
<1>2. CASE id \notin DOMAIN d.objects
  <2>1. PICK O, B :
          /\ WithCreate(d, id, owner, energy) =
               [objects |-> O, ghosts |-> d.ghosts, storage_bytes |-> B, mmr |-> d.mmr]
          /\ O = With(d.objects, id, Object(owner, energy, "Active"))
          /\ B = [d.storage_bytes EXCEPT ![owner] = @ + BASE_OBJECT_BYTES + DataBytes]
    BY <1>2, CreateFields
  <2>2. WithCreate(e, id, owner, energy) =
          [objects |-> O, ghosts |-> e.ghosts, storage_bytes |-> B, mmr |-> e.mmr]
    <3>1. id \notin DOMAIN e.objects
      BY <1>2 DEF AgreeOn
    <3>2. /\ O = With(e.objects, id, Object(owner, energy, "Active"))
          /\ B = [e.storage_bytes EXCEPT ![owner] = @ + BASE_OBJECT_BYTES + DataBytes]
      BY <2>1 DEF AgreeOn
    <3> QED BY <3>1, <3>2, CreateFields
  <2> QED BY <2>1, <2>2 DEF AgreeOn
<1> QED BY <1>1, <1>2

LEMMA RefreshAgrees ==
  ASSUME NEW d, NEW e, IsDb(d), IsDb(e), AgreeOn(d, e), NEW id, NEW deposit
  PROVE  AgreeOn(WithRefresh(d, id, deposit), WithRefresh(e, id, deposit))
<1>0. d.objects = e.objects /\ DOMAIN d.ghosts = DOMAIN e.ghosts
  BY DEF AgreeOn
<1>1. CASE id \in DOMAIN d.objects
  <2>1. PICK O :
          /\ WithRefresh(d, id, deposit) =
               [objects |-> O, ghosts |-> d.ghosts, storage_bytes |-> d.storage_bytes, mmr |-> d.mmr]
          /\ O = [d.objects EXCEPT ![id] = Refreshed(d.objects[id], deposit)]
    BY <1>1, RefreshFields
  <2>2. WithRefresh(e, id, deposit) =
          [objects |-> O, ghosts |-> e.ghosts, storage_bytes |-> e.storage_bytes, mmr |-> e.mmr]
    <3>1. O = [e.objects EXCEPT ![id] = Refreshed(e.objects[id], deposit)]
      BY <1>0, <2>1
    <3> QED BY <1>0, <1>1, <3>1, RefreshFields
  <2> QED BY <2>1, <2>2 DEF AgreeOn
<1>2. CASE id \in DOMAIN d.ghosts \ DOMAIN d.objects
  <2>1. PICK O, G :
          /\ WithRefresh(d, id, deposit) =
               [objects |-> O, ghosts |-> G, storage_bytes |-> d.storage_bytes, mmr |-> d.mmr]
          /\ O = With(d.objects, id, Object(d.ghosts[id].owner, deposit, "Resurrected"))
          /\ G = Less(d.ghosts, {id})
    BY <1>2, ResurrectFields
  <2>2. PICK H :
          /\ WithRefresh(e, id, deposit) =
               [objects |-> O, ghosts |-> H, storage_bytes |-> e.storage_bytes, mmr |-> e.mmr]
          /\ H = Less(e.ghosts, {id})
    <3>1. d.ghosts[id].owner = e.ghosts[id].owner
      BY <1>2 DEF AgreeOn
    <3>2. O = With(e.objects, id, Object(e.ghosts[id].owner, deposit, "Resurrected"))
      BY <1>0, <2>1, <3>1
    <3> QED BY <1>0, <1>2, <3>2, ResurrectFields
  <2>3. /\ DOMAIN G = DOMAIN d.ghosts \ {id} /\ DOMAIN H = DOMAIN e.ghosts \ {id}
        /\ \A x \in DOMAIN G : G[x] = d.ghosts[x]
        /\ \A x \in DOMAIN H : H[x] = e.ghosts[x]
    BY <2>1, <2>2 DEF Less
  <2>4. DOMAIN G = DOMAIN H /\ \A x \in DOMAIN G : G[x].owner = H[x].owner
    BY <2>3 DEF AgreeOn
  <2>5. d.storage_bytes = e.storage_bytes
    BY DEF AgreeOn
  <2> QED BY <2>1, <2>2, <2>4, <2>5, FieldsAgree
<1>3. CASE id \notin DOMAIN d.objects /\ id \notin DOMAIN d.ghosts
  BY <1>0, <1>3 DEF WithRefresh
<1> QED BY <1>1, <1>2, <1>3

LEMMA SweptAgrees ==
  ASSUME NEW d, NEW e, IsDb(d), IsDb(e), AgreeOn(d, e), ScanCoversAll,
         NEW o, IsOrder(o, d), NEW p, IsOrder(p, e)
  PROVE  AgreeOn(Swept(d, o), Swept(e, p))
<1>0. d.objects = e.objects /\ d.storage_bytes = e.storage_bytes
  BY DEF AgreeOn
<1>1. Visited(o) = DOMAIN d.objects /\ Visited(p) = DOMAIN d.objects
  BY <1>0, VisitsAll
<1>2. PICK gone : gone = Gone(d, o) /\ gone = Gone(e, p)
  BY <1>0, <1>1 DEF Gone
<1>3. PICK spent : spent = Spent(d, o) /\ spent = Spent(e, p)
  BY <1>0, <1>1 DEF Spent
<1>4. PICK O : O = [id \in DOMAIN d.objects \ gone |->
                      IF id \in spent THEN InGrace(d.objects[id]) ELSE d.objects[id]]
  OBVIOUS
<1>5. PICK B : B = [a \in Owners |-> Credited(d, gone, a)]
  OBVIOUS
<1>6. B = [a \in Owners |-> Credited(e, gone, a)]
  BY <1>0, <1>5 DEF Credited
<1>7. PICK G, M :
        /\ Swept(d, o) = [objects |-> O, ghosts |-> G, storage_bytes |-> B, mmr |-> M]
        /\ G = [id \in DOMAIN d.ghosts \cup gone |->
                  IF id \in gone THEN GhostOf(d, o, id) ELSE d.ghosts[id]]
  BY <1>2, <1>3, <1>4, <1>5, SweptFields
<1>8. PICK H, N :
        /\ Swept(e, p) = [objects |-> O, ghosts |-> H, storage_bytes |-> B, mmr |-> N]
        /\ H = [id \in DOMAIN e.ghosts \cup gone |->
                  IF id \in gone THEN GhostOf(e, p, id) ELSE e.ghosts[id]]
  <2>1. O = [id \in DOMAIN e.objects \ gone |->
               IF id \in spent THEN InGrace(e.objects[id]) ELSE e.objects[id]]
    BY <1>0, <1>4
  <2> QED BY <1>2, <1>3, <1>6, <2>1, SweptFields
<1>9. \A id \in gone : GhostOf(d, o, id).owner = GhostOf(e, p, id).owner
  BY <1>0 DEF GhostOf
<1>10. DOMAIN G = DOMAIN H /\ \A id \in DOMAIN G : G[id].owner = H[id].owner
  BY <1>7, <1>8, <1>9 DEF AgreeOn
<1>11. Swept(d, o) = [objects |-> O, ghosts |-> G, storage_bytes |-> B, mmr |-> M]
  BY <1>7
<1>12. Swept(e, p) = [objects |-> O, ghosts |-> H, storage_bytes |-> B, mmr |-> N]
  BY <1>8
<1> QED BY <1>10, <1>11, <1>12, FieldsAgree

\* Any two nodes agree: the inductive invariant.
AgreeInv == GhostInv /\ \A m, n \in Nodes : AgreeOn(db[m], db[n])

\* After the transaction of a block, before its sweep.
LEMMA TransactionAgrees ==
  ASSUME AgreeInv, EvaporationNext
  PROVE  \E after :
           /\ Sweep(after)
           /\ \A n \in Nodes : IsDb(after[n]) /\ GhostsLead(after[n])
           /\ \A m, n \in Nodes : AgreeOn(after[m], after[n])
<1>0. /\ StateType /\ epoch \in Nat /\ \A n \in Nodes : IsDb(db[n]) /\ GhostsLead(db[n])
      /\ \A m, n \in Nodes : AgreeOn(db[m], db[n])
  BY DEF AgreeInv, GhostInv, StateType
<1>1. PICK after :
        /\ Sweep(after)
        /\ \/ after = db
           \/ \E id \in ObjectIds, owner \in Owners, energy \in Energies :
                after = [n \in Nodes |-> WithCreate(db[n], id, owner, energy)]
           \/ \E id \in ObjectIds, deposit \in Energies :
                after = [n \in Nodes |-> WithRefresh(db[n], id, deposit)]
  BY <1>0, BlockCases
<1>2. \A n \in Nodes : IsDb(after[n]) /\ GhostsLead(after[n])
  BY <1>0, <1>1, CreateKeeps, RefreshKeeps
<1>3. \A m, n \in Nodes : AgreeOn(after[m], after[n])
  BY <1>0, <1>1, CreateAgrees, RefreshAgrees
<1> QED BY <1>1, <1>2, <1>3

\* Nodes agree on objects, accounts and ghosts after every block
\* (process_epoch_with_mmr).
THEOREM StateAgreement ==
  ASSUME ScanCoversAll
  PROVE  EvaporationSpec => []AgreeInv
<1>1. EvaporationInit /\ GhostInv => AgreeInv
  BY DEF EvaporationInit, AgreeInv, AgreeOn
<1>2. AgreeInv /\ GhostInv' /\ [EvaporationNext]_evaporationVars => AgreeInv'
  <2> SUFFICES ASSUME AgreeInv, GhostInv', [EvaporationNext]_evaporationVars PROVE AgreeInv'
    OBVIOUS
  <2>1. CASE UNCHANGED evaporationVars
    BY <2>1 DEF evaporationVars, AgreeInv, AgreeOn
  <2>2. CASE EvaporationNext
    <3>1. PICK after :
            /\ Sweep(after)
            /\ \A n \in Nodes : IsDb(after[n]) /\ GhostsLead(after[n])
            /\ \A m, n \in Nodes : AgreeOn(after[m], after[n])
      BY <2>2, TransactionAgrees
    <3>2. \A n \in Nodes : \E order : IsOrder(order, after[n]) /\ db'[n] = Swept(after[n], order)
      BY <3>1, SweepOrders DEF AgreeInv, GhostInv
    <3>3. ASSUME NEW m \in Nodes, NEW n \in Nodes PROVE AgreeOn(db'[m], db'[n])
      <4>1. PICK o : IsOrder(o, after[m]) /\ db'[m] = Swept(after[m], o)
        BY <3>2
      <4>2. PICK p : IsOrder(p, after[n]) /\ db'[n] = Swept(after[n], p)
        BY <3>2
      <4>3. AgreeOn(Swept(after[m], o), Swept(after[n], p))
        BY <3>1, <4>1, <4>2, SweptAgrees
      <4> QED BY <4>1, <4>2, <4>3
    <3> QED BY <3>3 DEF AgreeInv, AgreeOn
  <2> QED BY <2>1, <2>2
<1> QED BY <1>1, <1>2, GhostInvariant, PTL DEF EvaporationSpec

\* StateRootsAgree: as long as a sweep can visit everything, nodes that iterate
\* over their hash maps in different orders have the same objects and accounts.
THEOREM StateRootsAgreeHolds ==
  ASSUME ScanCoversAll
  PROVE  EvaporationSpec => []StateRootsAgree
<1>1. AgreeInv => StateRootsAgree
  BY DEF AgreeInv, AgreeOn, StateRootsAgree
<1> QED BY <1>1, StateAgreement, PTL

-----------------------------------------------------------------------------
(* How long an object lives.                                               *)

\* The epoch in which the sweep finds the energy of an object gone.
ZeroAt(obj) == obj.last_refreshed + EpochsUntilZero(obj.charge)

\* Where an object stands after the sweep of the epoch before e.
LifeOf(obj, e) ==
  /\ obj.last_refreshed <= e
  /\ Live(obj) => obj.energy = obj.charge /\ e - 1 < ZeroAt(obj)
  /\ ~Live(obj) => /\ obj.grace_epoch = ZeroAt(obj)
                    /\ ZeroAt(obj) <= e - 1 /\ e - 1 < ZeroAt(obj) + grace_period

ObjectsLive(d, e) == \A id \in DOMAIN d.objects : LifeOf(d.objects[id], e)

\* The objects of a database are those of its last block or new.
LEMMA ChargedLives ==
  ASSUME NEW obj \in ObjectRecords, epoch \in Nat, Live(obj), obj.energy = obj.charge,
         obj.last_refreshed = epoch
  PROVE  LifeOf(obj, epoch)
<1>1. obj.charge \in 1 .. MaxEnergy
  BY DEF ObjectRecords
<1>2. EpochsUntilZero(obj.charge) \in Nat \ {0}
  BY <1>1, EnergyGone
<1> QED BY <1>2 DEF LifeOf, ZeroAt

\* Transactions leave every object where its last charge puts it.
LEMMA CreateLives ==
  ASSUME NEW d, IsDb(d), ObjectsLive(d, epoch), epoch \in Nat,
         NEW id \in ObjectIds, NEW owner \in Owners, NEW energy \in Energies
  PROVE  ObjectsLive(WithCreate(d, id, owner, energy), epoch)
<1>1. CASE id \in DOMAIN d.objects
  BY <1>1 DEF WithCreate
<1>2. CASE id \notin DOMAIN d.objects
  <2>1. PICK o : o = Object(owner, energy, "Active")
    OBVIOUS
  <2>2. LifeOf(o, epoch)
    <3>1. energy \in 1 .. MaxEnergy /\ "Active" \in {"Active", "Resurrected"}
      BY EnergyFacts
    <3>2. o \in ObjectRecords /\ Live(o) /\ o.energy = o.charge /\ o.last_refreshed = epoch
      BY <2>1, <3>1, NewObject
    <3> QED BY <3>2, ChargedLives
  <2>3. PICK O : WithCreate(d, id, owner, energy).objects = O /\ O = With(d.objects, id, o)
    <3>1. PICK O, B : /\ WithCreate(d, id, owner, energy) =
                           [objects |-> O, ghosts |-> d.ghosts, storage_bytes |-> B, mmr |-> d.mmr]
                      /\ O = With(d.objects, id, o)
      BY <1>2, <2>1, CreateFields
    <3>2. WithCreate(d, id, owner, energy).objects = O
      BY <3>1
    <3> QED BY <3>1, <3>2
  <2>4. /\ DOMAIN O = DOMAIN d.objects \cup {id} /\ O[id] = o
        /\ \A x \in DOMAIN d.objects : x # id => O[x] = d.objects[x]
    <3>1. O = With(d.objects, id, o)
      BY <2>3
    <3>2. PICK f : f = d.objects
      OBVIOUS
    <3>3. O = [y \in DOMAIN f \cup {id} |-> IF y = id THEN o ELSE f[y]]
      BY <3>1, <3>2 DEF With
    <3>4. /\ DOMAIN O = DOMAIN f \cup {id} /\ O[id] = o
          /\ \A x \in DOMAIN f : x # id => O[x] = f[x]
      BY <3>3
    <3> QED BY <3>2, <3>4
  <2>5. \A x \in DOMAIN O : LifeOf(O[x], epoch)
    BY <2>2, <2>4 DEF ObjectsLive
  <2> QED BY <2>3, <2>5 DEF ObjectsLive
<1> QED BY <1>1, <1>2

LEMMA RefreshLives ==
  ASSUME NEW d, IsDb(d), ObjectsLive(d, epoch), epoch \in Nat,
         NEW id \in ObjectIds, NEW deposit \in Energies
  PROVE  ObjectsLive(WithRefresh(d, id, deposit), epoch)
<1>0. deposit \in 1 .. MaxEnergy
  BY EnergyFacts
<1>1. CASE id \in DOMAIN d.objects
  <2>1. PICK o : o = Refreshed(d.objects[id], deposit)
    OBVIOUS
  <2>2. d.objects[id] \in ObjectRecords
    BY <1>1 DEF IsDb
  <2>3. LifeOf(o, epoch)
    BY <1>0, <2>1, <2>2, RefreshedFacts, ChargedLives
  <2>4. PICK O : /\ WithRefresh(d, id, deposit).objects = O
                 /\ O = [d.objects EXCEPT ![id] = o]
    BY <1>1, <2>1, RefreshFields
  <2>5. /\ DOMAIN O = DOMAIN d.objects
        /\ \A x \in DOMAIN O : O[x] = IF x = id THEN o ELSE d.objects[x]
    BY <2>4 DEF IsDb
  <2>6. \A x \in DOMAIN O : LifeOf(O[x], epoch)
    BY <2>3, <2>5 DEF ObjectsLive
  <2> QED BY <2>4, <2>6 DEF ObjectsLive
<1>2. CASE id \in DOMAIN d.ghosts \ DOMAIN d.objects
  <2>1. PICK o : o = Object(d.ghosts[id].owner, deposit, "Resurrected")
    OBVIOUS
  <2>2. d.ghosts[id].owner \in Owners
    BY <1>2 DEF IsDb, GhostRecords
  <2>3. LifeOf(o, epoch)
    BY <1>0, <2>1, <2>2, NewObject, ChargedLives
  <2>4. PICK O : WithRefresh(d, id, deposit).objects = O /\ O = With(d.objects, id, o)
    <3>1. PICK O, G : /\ WithRefresh(d, id, deposit) =
                           [objects |-> O, ghosts |-> G, storage_bytes |-> d.storage_bytes,
                            mmr |-> d.mmr]
                      /\ O = With(d.objects, id, o)
      BY <1>2, <2>1, ResurrectFields
    <3>2. WithRefresh(d, id, deposit).objects = O
      BY <3>1
    <3> QED BY <3>1, <3>2
  <2>5. /\ DOMAIN O = DOMAIN d.objects \cup {id} /\ O[id] = o
        /\ \A x \in DOMAIN d.objects : x # id => O[x] = d.objects[x]
    <3>1. O = With(d.objects, id, o)
      BY <2>4
    <3>2. PICK f : f = d.objects
      OBVIOUS
    <3>3. O = [y \in DOMAIN f \cup {id} |-> IF y = id THEN o ELSE f[y]]
      BY <3>1, <3>2 DEF With
    <3>4. /\ DOMAIN O = DOMAIN f \cup {id} /\ O[id] = o
          /\ \A x \in DOMAIN f : x # id => O[x] = f[x]
      BY <3>3
    <3> QED BY <3>2, <3>4
  <2>6. \A x \in DOMAIN O : LifeOf(O[x], epoch)
    BY <2>3, <2>5 DEF ObjectsLive
  <2> QED BY <2>4, <2>6 DEF ObjectsLive
<1>3. CASE id \notin DOMAIN d.objects /\ id \notin DOMAIN d.ghosts
  BY <1>3 DEF WithRefresh
<1> QED BY <1>1, <1>2, <1>3

\* The sweep takes the objects whose time has come and no others.
LEMMA SweptLives ==
  ASSUME NEW d, NEW order, IsDb(d), IsOrder(order, d), ObjectsLive(d, epoch),
         epoch \in Nat, ScanCoversAll
  PROVE  ObjectsLive(Swept(d, order), epoch + 1)
<1>0. grace_period \in Nat \ {0}
  BY EvaporationAssumption
<1>1. Visited(order) = DOMAIN d.objects
  BY VisitsAll
<1>2. PICK O : /\ Swept(d, order).objects = O
               /\ O = [id \in DOMAIN d.objects \ Gone(d, order) |->
                        IF id \in Spent(d, order) THEN InGrace(d.objects[id])
                        ELSE d.objects[id]]
  <2>1. PICK O, G, B, M :
          /\ Swept(d, order) = [objects |-> O, ghosts |-> G, storage_bytes |-> B, mmr |-> M]
          /\ O = [id \in DOMAIN d.objects \ Gone(d, order) |->
                    IF id \in Spent(d, order) THEN InGrace(d.objects[id]) ELSE d.objects[id]]
    BY SweptFields
  <2>2. Swept(d, order) = [objects |-> O, ghosts |-> G, storage_bytes |-> B, mmr |-> M]
    BY <2>1
  <2>3. Swept(d, order).objects = O
    BY <2>2
  <2> QED BY <2>1, <2>3
<1>3. ASSUME NEW id \in DOMAIN O PROVE LifeOf(O[id], epoch + 1)
  <2>1. PICK obj \in ObjectRecords : obj = d.objects[id] /\ id \in DOMAIN d.objects
                                     /\ id \notin Gone(d, order)
    BY <1>2 DEF IsDb
  <2>2. LifeOf(obj, epoch)
    BY <2>1 DEF ObjectsLive
  <2>3. /\ obj.charge \in 1 .. MaxEnergy /\ obj.last_refreshed \in Nat
        /\ obj.grace_epoch \in Nat
        /\ obj.state \in {"Active", "Resurrected", "Grace"}
    BY DEF ObjectRecords
  <2>4. PICK t \in Nat : t = epoch - obj.last_refreshed
    BY <2>2, <2>3 DEF LifeOf
  <2>5. PICK u \in Nat \ {0} : u = EpochsUntilZero(obj.charge)
    BY <2>3, EnergyGone
  <2>6. EnergyAtEpoch(obj.charge, t) = 0 <=> t >= u
    BY <2>3, <2>5, EnergyGone
  <2>7. PICK z \in Nat : z = ZeroAt(obj) /\ z = obj.last_refreshed + u
    BY <2>3, <2>5 DEF ZeroAt
  <2>8. CASE Live(obj) /\ EnergyNow(obj) = 0
    <3>1. id \in Spent(d, order)
      BY <1>1, <2>1, <2>8 DEF Spent
    <3>2. PICK new : new = InGrace(obj)
      OBVIOUS
    <3>3. O[id] = new
      BY <1>2, <2>1, <3>1, <3>2
    <3>4. obj.energy = obj.charge /\ epoch - 1 < z
      BY <2>2, <2>7, <2>8 DEF LifeOf
    <3>5. t >= u
      BY <2>4, <2>6, <2>8, <3>4 DEF EnergyNow
    <3>6. epoch = z
      BY <2>3, <2>4, <2>7, <3>4, <3>5
    <3>7. /\ new.state = "Grace" /\ new.grace_epoch = epoch
          /\ new.charge = obj.charge /\ new.last_refreshed = obj.last_refreshed
      BY <3>2, InGraceFacts
    <3>8. ~Live(new) /\ ZeroAt(new) = z
      BY <2>7, <3>7 DEF Live, ZeroAt
    <3>9. new.last_refreshed <= epoch + 1
      BY <2>2, <2>3, <3>7 DEF LifeOf
    <3> QED BY <1>0, <3>3, <3>6, <3>7, <3>8, <3>9 DEF LifeOf
  <2>9. CASE Live(obj) /\ EnergyNow(obj) # 0
    <3>1. id \notin Spent(d, order)
      BY <2>1, <2>9 DEF Spent
    <3>2. O[id] = obj
      BY <1>2, <2>1, <3>1
    <3>3. obj.energy = obj.charge /\ obj.last_refreshed <= epoch
      BY <2>2, <2>9 DEF LifeOf
    <3>4. ~(t >= u)
      BY <2>4, <2>6, <2>9, <3>3 DEF EnergyNow
    <3>5. epoch < z
      BY <2>3, <2>4, <2>7, <3>4
    <3>6. (epoch + 1) - 1 = epoch /\ obj.last_refreshed <= epoch + 1
      BY <2>3, <3>3
    <3>7. LifeOf(obj, epoch + 1)
      BY <2>7, <2>9, <3>3, <3>5, <3>6 DEF LifeOf
    <3> QED BY <3>2, <3>7
  <2>10. CASE ~Live(obj)
    <3>1. id \notin Spent(d, order)
      BY <2>1, <2>10 DEF Spent
    <3>2. O[id] = obj
      BY <1>2, <2>1, <3>1
    <3>3. obj.state = "Grace" /\ ~GraceOver(obj)
      BY <1>1, <2>1, <2>3, <2>10 DEF Live, Gone
    <3>4. obj.grace_epoch = z /\ z <= epoch - 1 /\ obj.last_refreshed <= epoch
      BY <2>2, <2>7, <2>10 DEF LifeOf
    <3>5. epoch < z + grace_period
      BY <1>0, <3>3, <3>4 DEF GraceOver
    <3>6. (epoch + 1) - 1 = epoch /\ obj.last_refreshed <= epoch + 1 /\ z <= epoch
      BY <2>3, <3>4
    <3>7. LifeOf(obj, epoch + 1)
      BY <2>7, <2>10, <3>4, <3>5, <3>6 DEF LifeOf
    <3> QED BY <3>2, <3>7
  <2> QED BY <2>8, <2>9, <2>10
<1> QED BY <1>2, <1>3 DEF ObjectsLive

\* Every object is where its last charge puts it: the inductive invariant.
LifeInv == GhostInv /\ \A n \in Nodes : ObjectsLive(db[n], epoch)

\* Every object is where its last charge puts it, after every block: live until
\* epochs_until_zero, in grace until grace_period has passed.
THEOREM LifeInvariant ==
  ASSUME ScanCoversAll
  PROVE  EvaporationSpec => []LifeInv
<1>1. EvaporationInit /\ GhostInv => LifeInv
  <2> SUFFICES ASSUME EvaporationInit, GhostInv PROVE LifeInv
    OBVIOUS
  <2>1. \A n \in Nodes : db[n] = EmptyDb
    BY DEF EvaporationInit
  <2>2. EmptyDb.objects = [id \in {} |-> 0]
    BY DEF EmptyDb
  <2>3. DOMAIN EmptyDb.objects = {}
    BY <2>2
  <2> QED BY <2>1, <2>3 DEF LifeInv, ObjectsLive
<1>2. LifeInv /\ GhostInv' /\ [EvaporationNext]_evaporationVars => LifeInv'
  <2> SUFFICES ASSUME LifeInv, GhostInv', [EvaporationNext]_evaporationVars PROVE LifeInv'
    OBVIOUS
  <2>1. CASE UNCHANGED evaporationVars
    BY <2>1 DEF evaporationVars, LifeInv, ObjectsLive, LifeOf, ZeroAt, Live, EpochsUntilZero
  <2>2. CASE EvaporationNext
    <3>0. /\ StateType /\ epoch \in Nat
          /\ \A n \in Nodes : IsDb(db[n]) /\ GhostsLead(db[n]) /\ ObjectsLive(db[n], epoch)
      BY DEF LifeInv, GhostInv, StateType
    <3>1. PICK after :
            /\ Sweep(after)
            /\ \/ after = db
               \/ \E id \in ObjectIds, owner \in Owners, energy \in Energies :
                    after = [n \in Nodes |-> WithCreate(db[n], id, owner, energy)]
               \/ \E id \in ObjectIds, deposit \in Energies :
                    after = [n \in Nodes |-> WithRefresh(db[n], id, deposit)]
      BY <2>2, <3>0, BlockCases
    <3>2. \A n \in Nodes : IsDb(after[n])
      BY <3>0, <3>1, CreateKeeps, RefreshKeeps
    <3>3. \A n \in Nodes : ObjectsLive(after[n], epoch)
      BY <3>0, <3>1, CreateLives, RefreshLives
    <3>4. epoch' = epoch + 1
      BY <3>0, <3>1, <3>2, SweepOrders
    <3>5. ASSUME NEW n \in Nodes PROVE ObjectsLive(db'[n], epoch')
      <4>1. PICK order : IsOrder(order, after[n]) /\ db'[n] = Swept(after[n], order)
        BY <3>0, <3>1, <3>2, SweepOrders
      <4>2. ObjectsLive(Swept(after[n], order), epoch + 1)
        BY <3>0, <3>2, <3>3, <4>1, SweptLives
      <4> QED BY <3>4, <4>1, <4>2
    <3> QED BY <3>5 DEF LifeInv, ObjectsLive, LifeOf, ZeroAt, Live, EpochsUntilZero
  <2> QED BY <2>1, <2>2
<1> QED BY <1>1, <1>2, GhostInvariant, PTL DEF EvaporationSpec

\* LifeIsExact: epochs_until_zero predicts the sweep to the epoch, and the grace
\* period follows to the epoch, as long as a sweep can visit everything.
THEOREM LifeIsExactHolds ==
  ASSUME ScanCoversAll
  PROVE  EvaporationSpec => []LifeIsExact
<1>1. LifeInv => LifeIsExact
  BY DEF LifeInv, ObjectsLive, LifeOf, ZeroAt, LifeIsExact
<1> QED BY <1>1, LifeInvariant, PTL

-----------------------------------------------------------------------------
(* The write-ahead log.                                                    *)

Entries == [kind : {"begin", "commit"}, height : Nat, part : {"whole", "unmarked", "torn"}]

Whole(entries) == \A i \in DOMAIN entries : entries[i].part = "whole"

\* Where the log stands while blocks are begun and committed.
LogUp ==
  /\ magic = "ok" /\ Whole(file) /\ doubtful = {} /\ compacted = FALSE
  /\ last_committed_height < next
  /\ \A h \in HeightsOf(file, "commit") : h <= last_committed_height
  /\ \A h \in HeightsOf(file, "begin") :
       h \in HeightsOf(file, "commit") \cup begun \/ (call = "commit" /\ h = next)
  /\ begun \subseteq {next} /\ begun \subseteq HeightsOf(file, "begin")
  /\ call \in {"none", "begin", "commit", "compact"}
  /\ call = "none" => writing = <<>>
  /\ call \in {"begin", "commit"} => begun = {} /\ writing = <<Entry(call, next, "whole")>>
  /\ call = "compact" => /\ Whole(writing) /\ HeightsOf(writing, "commit") = {}
                         /\ HeightsOf(writing, "begin") = begun

\* ... and after a crash.
LogDown ==
  /\ writing = <<>> /\ call = "none"
  /\ \A h \in HeightsOf(ReadAllEntries(file), "commit") : h <= next
  /\ RecoverUncommitted(ReadAllEntries(file)) \subseteq begun \cup doubtful
  /\ begun \subseteq RecoverUncommitted(ReadAllEntries(file)) \/ compacted
  /\ magic = "part" => compacted
  /\ node = "opened" =>
       /\ magic = "ok"
       /\ last_committed_height \in {0} \cup HeightsOf(ReadAllEntries(file), "commit")

LogInv ==
  /\ file \in Seq(Entries) /\ writing \in Seq(Entries)
  /\ next \in Nat \ {0} /\ last_committed_height \in Nat
  /\ node \in {"up", "down", "opened", "failed"}
  /\ node = "up" => LogUp
  /\ node \in {"down", "opened"} => LogDown
  /\ node = "failed" => compacted /\ call = "none"

\* The heights begun and committed in a log.
LEMMA HeightsAre ==
  ASSUME NEW f \in Seq(Entries), NEW kind
  PROVE  /\ HeightsOf(f, kind) \subseteq Nat
         /\ \A h : h \in HeightsOf(f, kind) <=>
                     \E i \in 1 .. Len(f) : f[i].kind = kind /\ f[i].height = h
<1>1. DOMAIN f = 1 .. Len(f) /\ \A i \in 1 .. Len(f) : f[i] \in Entries
  OBVIOUS
<1>2. \A i \in 1 .. Len(f) : f[i].height \in Nat
  BY <1>1 DEF Entries
<1> QED BY <1>1, <1>2 DEF HeightsOf

LEMMA HeightsOfConcat ==
  ASSUME NEW s \in Seq(Entries), NEW t \in Seq(Entries), NEW kind
  PROVE  HeightsOf(s \o t, kind) = HeightsOf(s, kind) \cup HeightsOf(t, kind)
<1>1. PICK u : u = s \o t
  OBVIOUS
<1>2. /\ u \in Seq(Entries) /\ Len(u) = Len(s) + Len(t)
      /\ Len(s) \in Nat /\ Len(t) \in Nat
      /\ \A i \in 1 .. Len(s) : u[i] = s[i]
      /\ \A i \in 1 .. Len(t) : u[Len(s) + i] = t[i]
  BY <1>1, ConcatFacts
<1>3. ASSUME NEW h \in HeightsOf(u, kind) PROVE h \in HeightsOf(s, kind) \cup HeightsOf(t, kind)
  <2>1. PICK i \in 1 .. Len(u) : u[i].kind = kind /\ u[i].height = h
    BY <1>2, HeightsAre
  <2>2. CASE i \in 1 .. Len(s)
    BY <1>2, <2>1, <2>2, HeightsAre
  <2>3. CASE i \notin 1 .. Len(s)
    <3>1. PICK j \in 1 .. Len(t) : i = Len(s) + j
      <4>1. i - Len(s) \in 1 .. Len(t) /\ i = Len(s) + (i - Len(s))
        BY <1>2, <2>3
      <4> QED BY <4>1
    <3>2. t[j].kind = kind /\ t[j].height = h
      BY <1>2, <2>1, <3>1
    <3> QED BY <3>2, HeightsAre
  <2> QED BY <2>2, <2>3
<1>4. ASSUME NEW h \in HeightsOf(s, kind) PROVE h \in HeightsOf(u, kind)
  <2>1. PICK i \in 1 .. Len(s) : s[i].kind = kind /\ s[i].height = h
    BY HeightsAre
  <2>2. i \in 1 .. Len(u) /\ u[i] = s[i]
    BY <1>2
  <2> QED BY <1>2, <2>1, <2>2, HeightsAre
<1>5. ASSUME NEW h \in HeightsOf(t, kind) PROVE h \in HeightsOf(u, kind)
  <2>1. PICK i \in 1 .. Len(t) : t[i].kind = kind /\ t[i].height = h
    BY HeightsAre
  <2>2. Len(s) + i \in 1 .. Len(u) /\ u[Len(s) + i] = t[i]
    BY <1>2
  <2> QED BY <1>2, <2>1, <2>2, HeightsAre
<1> QED BY <1>1, <1>3, <1>4, <1>5

\* What is read of a file that is whole up to its last entry.
LEMMA ReadAllOf ==
  ASSUME NEW f \in Seq(Entries), NEW m \in 0 .. Len(f), Len(f) <= m + 1,
         \A i \in 1 .. m : f[i].part = "whole",
         m < Len(f) => f[m + 1].part # "whole"
  PROVE  ReadAllEntries(f) = SubSeq(f, 1, m)
<1>0. Len(f) \in Nat /\ DOMAIN f = 1 .. Len(f) /\ m \in Nat /\ m <= Len(f)
  OBVIOUS
<1>1. WholePrefix(f) = 1 .. m
  <2>1. ASSUME NEW i \in WholePrefix(f) PROVE i \in 1 .. m
    <3>1. i \in 1 .. Len(f) /\ \A j \in 1 .. i : f[j].part = "whole"
      BY <1>0 DEF WholePrefix
    <3>2. i # m + 1
      BY <1>0, <3>1
    <3> QED BY <1>0, <3>1, <3>2
  <2>2. ASSUME NEW i \in 1 .. m PROVE i \in WholePrefix(f)
    <3>1. i \in 1 .. Len(f) /\ \A j \in 1 .. i : j \in 1 .. m
      BY <1>0
    <3> QED BY <1>0, <3>1 DEF WholePrefix
  <2> QED BY <2>1, <2>2
<1>2. Cardinality(1 .. m) = m
  BY <1>0, FS_Interval
<1>3. Cardinality(WholePrefix(f)) = m
  BY <1>1, <1>2
<1>4. ~(m + 1 < Len(f))
  BY <1>0
<1> QED BY <1>3, <1>4 DEF ReadAllEntries

\* What read_all_entries finds in whole logs and in logs cut off by a crash.
LEMMA ReadWhole ==
  ASSUME NEW f \in Seq(Entries), Whole(f)
  PROVE  ReadAllEntries(f) = f
<1>1. Len(f) \in 0 .. Len(f) /\ Len(f) <= Len(f) + 1 /\ ~(Len(f) < Len(f)) /\ DOMAIN f = 1 .. Len(f)
  OBVIOUS
<1>2. ReadAllEntries(f) = SubSeq(f, 1, Len(f))
  BY <1>1, ReadAllOf DEF Whole
<1> QED BY <1>2

\* What is read of a file that a crash cut: all of what was synced, and some of
\* what was being written.
ReadBack(f, s, w) ==
  /\ f \in Seq(Entries)
  /\ \A kind : /\ HeightsOf(s, kind) \subseteq HeightsOf(ReadAllEntries(f), kind)
               /\ HeightsOf(ReadAllEntries(f), kind) \subseteq HeightsOf(s, kind) \cup HeightsOf(w, kind)

LEMMA ReadPrefix ==
  ASSUME NEW s \in Seq(Entries), NEW w \in Seq(Entries), Whole(s), Whole(w),
         NEW f \in Seq(Entries), NEW n \in 0 .. Len(w),
         Len(s) + n <= Len(f), Len(f) <= Len(s) + n + 1,
         \A i \in 1 .. Len(s) : f[i] = s[i],
         \A i \in 1 .. n : f[Len(s) + i] = w[i],
         Len(s) + n < Len(f) => f[Len(s) + n + 1].part # "whole"
  PROVE  ReadBack(f, s, w)
<1>0. /\ Len(s) \in Nat /\ Len(w) \in Nat /\ Len(f) \in Nat /\ n \in Nat
      /\ DOMAIN s = 1 .. Len(s) /\ DOMAIN w = 1 .. Len(w)
  OBVIOUS
<1>1. PICK m \in 0 .. Len(f) : m = Len(s) + n
  BY <1>0
<1>2. ASSUME NEW i \in 1 .. m, i \notin 1 .. Len(s)
      PROVE  \E j \in 1 .. n : i = Len(s) + j
  <2>1. i - Len(s) \in 1 .. n /\ i = Len(s) + (i - Len(s))
    BY <1>0, <1>1, <1>2
  <2> QED BY <2>1
<1>3. ASSUME NEW i \in 1 .. m PROVE f[i].part = "whole"
  <2>1. CASE i \in 1 .. Len(s)
    BY <1>0, <2>1 DEF Whole
  <2>2. CASE i \notin 1 .. Len(s)
    <3>1. PICK j \in 1 .. n : i = Len(s) + j
      BY <1>2, <2>2
    <3>2. j \in 1 .. Len(w)
      BY <1>0
    <3> QED BY <1>0, <3>1, <3>2, ZenonT(30) DEF Whole
  <2> QED BY <2>1, <2>2
<1>4. PICK r : r = SubSeq(f, 1, m)
  OBVIOUS
<1>5. ReadAllEntries(f) = r
  BY <1>0, <1>1, <1>3, <1>4, ReadAllOf
<1>6. r \in Seq(Entries) /\ Len(r) = m /\ \A i \in 1 .. m : r[i] = f[i]
  BY <1>0, <1>1, <1>4
<1>7. ASSUME NEW kind, NEW h \in HeightsOf(s, kind) PROVE h \in HeightsOf(r, kind)
  <2>1. PICK i \in 1 .. Len(s) : s[i].kind = kind /\ s[i].height = h
    BY HeightsAre
  <2>2. i \in 1 .. m /\ r[i] = s[i]
    BY <1>0, <1>1, <1>6
  <2> QED BY <1>6, <2>1, <2>2, HeightsAre, ZenonT(30)
<1>8. ASSUME NEW kind, NEW h \in HeightsOf(r, kind)
      PROVE  h \in HeightsOf(s, kind) \cup HeightsOf(w, kind)
  <2>1. PICK i \in 1 .. m : r[i].kind = kind /\ r[i].height = h
    BY <1>6, HeightsAre
  <2>2. CASE i \in 1 .. Len(s)
    <3>1. r[i] = s[i]
      BY <1>6, <2>2
    <3>2. s[i].kind = kind /\ s[i].height = h
      BY <2>1, <3>1
    <3> QED BY <2>2, <3>2, HeightsAre
  <2>3. CASE i \notin 1 .. Len(s)
    <3>1. PICK j \in 1 .. n : i = Len(s) + j
      BY <1>2, <2>3
    <3>2. j \in 1 .. Len(w) /\ f[Len(s) + j] = w[j]
      BY <1>0
    <3>3. w[j] = r[i]
      BY <1>6, <3>1, <3>2
    <3> QED BY <2>1, <3>2, <3>3, HeightsAre
  <2> QED BY <2>2, <2>3
<1> QED BY <1>5, <1>7, <1>8 DEF ReadBack

LEMMA ReadCut ==
  ASSUME NEW s \in Seq(Entries), NEW w \in Seq(Entries), Whole(s), Whole(w),
         NEW cut \in Cuts(w)
  PROVE  ReadBack(s \o cut, s, w)
<1>0. Len(s) \in Nat /\ Len(w) \in Nat /\ \A i \in 1 .. Len(w) : w[i] \in Entries
  OBVIOUS
<1>1. CASE \E n \in 0 .. Len(w) : cut = SubSeq(w, 1, n)
  <2>1. PICK n \in 0 .. Len(w) : cut = SubSeq(w, 1, n)
    BY <1>1
  <2>2. cut \in Seq(Entries) /\ Len(cut) = n /\ \A i \in 1 .. n : cut[i] = w[i]
    BY <1>0, <2>1
  <2>3. PICK f : f = s \o cut
    OBVIOUS
  <2>4. /\ f \in Seq(Entries) /\ Len(f) = Len(s) + Len(cut)
        /\ \A i \in 1 .. Len(s) : f[i] = s[i]
        /\ \A i \in 1 .. Len(cut) : f[Len(s) + i] = cut[i]
    <3>1. cut \in Seq(Entries)
      BY <2>2
    <3> QED BY <2>3, <3>1, ConcatFacts
  <2>5. /\ Len(s) + n <= Len(f) /\ Len(f) <= Len(s) + n + 1 /\ ~(Len(s) + n < Len(f))
        /\ \A i \in 1 .. n : f[Len(s) + i] = w[i]
    BY <1>0, <2>2, <2>4
  <2>6. ReadBack(f, s, w)
    BY <2>4, <2>5, ReadPrefix
  <2> QED BY <2>3, <2>6
<1>2. CASE \E n \in 1 .. Len(w), part \in {"unmarked", "torn"} : cut = Cut(w, n, part)
  <2>1. PICK n \in 1 .. Len(w), part \in {"unmarked", "torn"} :
          cut = [SubSeq(w, 1, n) EXCEPT ![n].part = part]
    BY <1>2 DEF Cut
  <2>2. PICK u : u = SubSeq(w, 1, n)
    OBVIOUS
  <2>3. u \in Seq(Entries) /\ Len(u) = n /\ \A i \in 1 .. n : u[i] = w[i]
    BY <1>0, <2>2
  <2>4. PICK x : x = [u[n] EXCEPT !.part = part]
    OBVIOUS
  <2>5. x \in Entries /\ x.part # "whole"
    <3>1. u[n] \in Entries
      BY <1>0, <2>3
    <3>2. PICK kind \in {"begin", "commit"}, height \in Nat :
            \E p : u[n] = [kind |-> kind, height |-> height, part |-> p]
      BY <3>1 DEF Entries
    <3>3. x = [kind |-> kind, height |-> height, part |-> part]
      BY <2>4, <3>2
    <3> QED BY <3>3 DEF Entries
  <2>6. cut = [u EXCEPT ![n] = x]
    BY <2>1, <2>2, <2>4
  <2>7. /\ cut \in Seq(Entries) /\ Len(cut) = n /\ cut[n] = x
        /\ \A i \in 1 .. n - 1 : cut[i] = w[i]
    BY <2>3, <2>5, <2>6
  <2>8. PICK f : f = s \o cut
    OBVIOUS
  <2>9. /\ f \in Seq(Entries) /\ Len(f) = Len(s) + n
        /\ \A i \in 1 .. Len(s) : f[i] = s[i]
        /\ \A i \in 1 .. n : f[Len(s) + i] = cut[i]
    <3>1. cut \in Seq(Entries)
      BY <2>7
    <3>2. /\ f \in Seq(Entries) /\ Len(f) = Len(s) + Len(cut)
          /\ \A i \in 1 .. Len(s) : f[i] = s[i]
          /\ \A i \in 1 .. Len(cut) : f[Len(s) + i] = cut[i]
      BY <2>8, <3>1, ConcatFacts
    <3> QED BY <2>7, <3>2
  <2>10. PICK k \in 0 .. Len(w) : k = n - 1
    BY <1>0
  <2>11. /\ Len(s) + k <= Len(f) /\ Len(f) <= Len(s) + k + 1
         /\ \A i \in 1 .. k : f[Len(s) + i] = w[i]
         /\ Len(s) + k + 1 = Len(s) + n
    BY <1>0, <2>7, <2>9, <2>10
  <2>12. f[Len(s) + k + 1].part # "whole"
    BY <2>5, <2>7, <2>9, <2>11
  <2>13. ReadBack(f, s, w)
    BY <2>9, <2>11, <2>12, ReadPrefix
  <2> QED BY <2>8, <2>13
<1>3. \/ \E n \in 0 .. Len(w) : cut = SubSeq(w, 1, n)
      \/ \E n \in 1 .. Len(w), part \in {"unmarked", "torn"} : cut = Cut(w, n, part)
  BY DEF Cuts
<1> QED BY <1>1, <1>2, <1>3

\* What compact keeps.
LEMMA RemainingFacts ==
  ASSUME NEW f \in Seq(Entries), Whole(f), NEW upto \in Nat
  PROVE  /\ Remaining(f, upto) \in Seq(Entries) /\ Whole(Remaining(f, upto))
         /\ \A kind : HeightsOf(Remaining(f, upto), kind) =
                        {h \in HeightsOf(f, kind) : h > upto}
<1>0. DOMAIN f = 1 .. Len(f) /\ Len(f) \in Nat
  OBVIOUS
<1>1. PICK I : I = {i \in DOMAIN f : f[i].height > upto}
  OBVIOUS
<1>2. I \in SUBSET (1 .. Len(f)) /\ \A i \in I : i <= Len(f)
  BY <1>0, <1>1
<1>3. PICK r : r = Remaining(f, upto)
  OBVIOUS
<1>4. r = Selected(f, I)
  BY <1>1, <1>3 DEF Remaining
<1>5. r \in Seq(Entries) /\ KeptOf(r, f, I, Len(f))
  BY <1>2, <1>4, SelectedKept
<1>6. DOMAIN r = 1 .. Len(r)
  BY <1>5
<1>7. ASSUME NEW k \in 1 .. Len(r) PROVE \E i \in I : r[k] = f[i]
  BY <1>5 DEF KeptOf
<1>8. Whole(r)
  BY <1>0, <1>2, <1>6, <1>7 DEF Whole
<1>9. ASSUME NEW kind, NEW h \in HeightsOf(r, kind) PROVE h \in HeightsOf(f, kind) /\ h > upto
  <2>1. PICK k \in 1 .. Len(r) : r[k].kind = kind /\ r[k].height = h
    BY <1>5, HeightsAre
  <2>2. PICK i \in I : r[k] = f[i]
    BY <1>7
  <2>3. i \in 1 .. Len(f) /\ f[i].kind = kind /\ f[i].height = h /\ h > upto
    BY <1>0, <1>1, <2>1, <2>2
  <2> QED BY <2>3, HeightsAre
<1>10. ASSUME NEW kind, NEW h \in HeightsOf(f, kind), h > upto PROVE h \in HeightsOf(r, kind)
  <2>1. PICK i \in 1 .. Len(f) : f[i].kind = kind /\ f[i].height = h
    BY HeightsAre
  <2>2. i \in I /\ i <= Len(f)
    BY <1>0, <1>1, <1>10, <2>1
  <2>3. PICK k \in 1 .. Len(r) : r[k] = f[i]
    BY <1>5, <2>2 DEF KeptOf
  <2>4. r[k].kind = kind /\ r[k].height = h
    BY <2>1, <2>3
  <2> QED BY <1>5, <2>4, HeightsAre
<1>11. ASSUME NEW kind PROVE HeightsOf(r, kind) = {h \in HeightsOf(f, kind) : h > upto}
  BY <1>9, <1>10
<1> QED BY <1>3, <1>5, <1>8, <1>11

\* scan_last_committed finds a committed height, or none.
LEMMA ScanFacts ==
  ASSUME NEW f \in Seq(Entries)
  PROVE  ScanLastCommitted(f) \in {0} \cup HeightsOf(f, "commit")
<1>1. PICK C : C = {i \in DOMAIN f : f[i].kind = "commit"}
  OBVIOUS
<1>2. CASE C = {}
  BY <1>1, <1>2 DEF ScanLastCommitted
<1>3. CASE C # {}
  <2>1. C \subseteq 1 .. Len(f) /\ C \subseteq Nat /\ Len(f) \in Nat /\ \A i \in C : i <= Len(f)
    BY <1>1
  <2>2. Max(C) \in C
    <3>1. IsFiniteSet(1 .. Len(f))
      BY <2>1, FS_Interval
    <3>2. IsFiniteSet(C)
      BY <2>1, <3>1, FS_Subset
    <3> QED BY <1>3, <2>1, <3>2, MaxIsGreatest
  <2>3. Max(C) \in 1 .. Len(f) /\ f[Max(C)].kind = "commit"
    BY <1>1, <2>1, <2>2
  <2>4. f[Max(C)].height \in HeightsOf(f, "commit")
    BY <2>3, HeightsAre
  <2>5. ScanLastCommitted(f) = f[Max(C)].height
    BY <1>1, <1>3 DEF ScanLastCommitted
  <2> QED BY <2>4, <2>5
<1> QED BY <1>2, <1>3

\* One entry.
LEMMA EntryFacts ==
  ASSUME NEW kind \in {"begin", "commit"}, NEW h \in Nat
  PROVE  /\ <<Entry(kind, h, "whole")>> \in Seq(Entries)
         /\ Whole(<<Entry(kind, h, "whole")>>)
         /\ \A k : HeightsOf(<<Entry(kind, h, "whole")>>, k) = IF k = kind THEN {h} ELSE {}
<1>1. PICK x : x = Entry(kind, h, "whole")
  OBVIOUS
<1>2. x \in Entries /\ x.kind = kind /\ x.height = h /\ x.part = "whole"
  BY <1>1 DEF Entry, Entries
<1>3. PICK s : s = <<x>>
  OBVIOUS
<1>4. s \in Seq(Entries) /\ Len(s) = 1 /\ s[1] = x /\ DOMAIN s = 1 .. 1
  BY <1>2, <1>3
<1>5. Whole(s)
  BY <1>2, <1>4 DEF Whole
<1>6. ASSUME NEW k, NEW g PROVE g \in HeightsOf(s, k) <=> (k = kind /\ g = h)
  <2>1. g \in HeightsOf(s, k) <=> \E i \in 1 .. Len(s) : s[i].kind = k /\ s[i].height = g
    BY <1>4, HeightsAre
  <2> QED BY <1>2, <1>4, <2>1
<1>7. ASSUME NEW k PROVE HeightsOf(s, k) = IF k = kind THEN {h} ELSE {}
  BY <1>6
<1> QED BY <1>1, <1>3, <1>4, <1>5, <1>7

\* The empty log.
LEMMA EmptyLog ==
  /\ <<>> \in Seq(Entries) /\ Whole(<<>>) /\ \A k : HeightsOf(<<>>, k) = {}
  /\ Cuts(<<>>) = {<<>>}
<1>1. PICK s : s = <<>>
  OBVIOUS
<1>2. s \in Seq(Entries) /\ Len(s) = 0 /\ DOMAIN s = {}
  BY <1>1
<1>3. Whole(s)
  BY <1>2 DEF Whole
<1>4. \A k : HeightsOf(s, k) = {}
  BY <1>2 DEF HeightsOf
<1>5. 0 .. Len(s) = {0} /\ 1 .. Len(s) = {} /\ SubSeq(s, 1, 0) = s
  BY <1>1, <1>2
<1>6. Cuts(s) = {s}
  <2>1. ASSUME NEW c \in Cuts(s) PROVE c = s
    <3>1. \/ \E n \in 0 .. Len(s) : c = SubSeq(s, 1, n)
          \/ \E n \in 1 .. Len(s), part \in {"unmarked", "torn"} : c = Cut(s, n, part)
      BY DEF Cuts
    <3> QED BY <1>5, <3>1
  <2>2. s \in Cuts(s)
    BY <1>5 DEF Cuts
  <2> QED BY <2>1, <2>2
<1> QED BY <1>1, <1>2, <1>3, <1>4, <1>6

\* The calls of a node that is up.
LEMMA AppendKeepsLog ==
  ASSUME LogInv, BeginBlock \/ CommitBlock
  PROVE  LogInv'
<1>1. /\ node = "up" /\ call = "none" /\ LogUp /\ next \in Nat /\ file \in Seq(Entries)
      /\ next \in Nat \ {0} /\ last_committed_height \in Nat
  BY DEF LogInv, BeginBlock, CommitBlock, Append1
<1>2. UNCHANGED <<magic, file, last_committed_height, node, next, doubtful, compacted>>
  BY DEF BeginBlock, CommitBlock, Append1
<1>3. PICK kind \in {"begin", "commit"} :
        /\ writing' = <<Entry(kind, next, "whole")>> /\ call' = kind
        /\ begun' = {} /\ (kind = "begin" => begun = {})
  BY DEF BeginBlock, CommitBlock, Append1
<1>4. writing' \in Seq(Entries)
  BY <1>1, <1>3, EntryFacts
<1>5. \A h \in HeightsOf(file, "begin") :
        h \in HeightsOf(file, "commit") \/ (kind = "commit" /\ h = next)
  BY <1>1, <1>3 DEF LogUp
<1>6. LogUp'
  <2>1. /\ magic = "ok" /\ Whole(file) /\ doubtful = {} /\ compacted = FALSE
        /\ last_committed_height < next
        /\ \A h \in HeightsOf(file, "commit") : h <= last_committed_height
    BY <1>1 DEF LogUp
  <2>2. HeightsOf(file, "begin")' = HeightsOf(file, "begin")
        /\ HeightsOf(file, "commit")' = HeightsOf(file, "commit") /\ Whole(file)' = Whole(file)
    BY <1>2 DEF HeightsOf, Whole
  <2> QED BY <1>2, <1>3, <1>5, <2>1, <2>2 DEF LogUp, Entry
<1> QED BY <1>1, <1>2, <1>4, <1>6 DEF LogInv

\* sync_all makes the entry of the call under way durable.
LEMMA SyncKeepsLog ==
  ASSUME LogInv, BeginSynced \/ CommitSynced
  PROVE  LogInv'
<1>1. PICK kind \in {"begin", "commit"} :
        /\ call = kind /\ (kind = "begin" => BeginSynced) /\ (kind = "commit" => CommitSynced)
        /\ Synced(kind)
  <2>1. CASE BeginSynced
    <3>1. Synced("begin") /\ call = "begin"
      BY <2>1 DEF BeginSynced, Synced
    <3> QED BY <2>1, <3>1
  <2>2. CASE CommitSynced
    <3>1. Synced("commit") /\ call = "commit"
      BY <2>2 DEF CommitSynced, Synced
    <3> QED BY <2>2, <3>1
  <2> QED BY <2>1, <2>2
<1>2. /\ node = "up" /\ LogUp /\ next \in Nat \ {0} /\ file \in Seq(Entries)
      /\ last_committed_height \in Nat
  BY <1>1 DEF LogInv, LogDown
<1>3. /\ begun = {} /\ Whole(file) /\ magic = "ok" /\ doubtful = {} /\ compacted = FALSE
      /\ last_committed_height < next
      /\ \A h \in HeightsOf(file, "commit") : h <= last_committed_height
      /\ \A h \in HeightsOf(file, "begin") :
           h \in HeightsOf(file, "commit") \/ (kind = "commit" /\ h = next)
  BY <1>1, <1>2 DEF LogUp
<1>4. PICK w : w = <<Entry(kind, next, "whole")>>
  OBVIOUS
<1>5. writing = w
  BY <1>1, <1>2, <1>4 DEF LogUp
<1>6. /\ w \in Seq(Entries) /\ Whole(w)
      /\ \A k : HeightsOf(w, k) = IF k = kind THEN {next} ELSE {}
  BY <1>2, <1>4, EntryFacts
<1>7. PICK f : f = file \o w
  OBVIOUS
<1>8. file' = f /\ writing' = <<>> /\ call' = "none" /\ UNCHANGED <<magic, node, doubtful, compacted>>
  BY <1>1, <1>5, <1>7 DEF Synced
<1>9. /\ f \in Seq(Entries)
      /\ \A k : HeightsOf(f, k) = HeightsOf(file, k) \cup HeightsOf(w, k)
  BY <1>2, <1>6, <1>7, ConcatFacts, HeightsOfConcat
<1>10. Whole(f)
  <2>1. /\ Len(f) = Len(file) + Len(w) /\ Len(file) \in Nat /\ Len(w) \in Nat
        /\ DOMAIN f = 1 .. Len(f) /\ DOMAIN file = 1 .. Len(file) /\ DOMAIN w = 1 .. Len(w)
        /\ \A i \in 1 .. Len(file) : f[i] = file[i]
        /\ \A i \in 1 .. Len(w) : f[Len(file) + i] = w[i]
    BY <1>2, <1>6, <1>7, <1>9, ConcatFacts
  <2>2. ASSUME NEW i \in DOMAIN f PROVE f[i].part = "whole"
    <3>1. CASE i \in 1 .. Len(file)
      BY <1>3, <2>1, <3>1 DEF Whole
    <3>2. CASE i \notin 1 .. Len(file)
      <4>1. i - Len(file) \in 1 .. Len(w) /\ i = Len(file) + (i - Len(file))
        BY <2>1, <3>2
      <4>2. PICK j \in 1 .. Len(w) : i = Len(file) + j
        BY <4>1
      <4> QED BY <1>6, <2>1, <4>2 DEF Whole
    <3> QED BY <3>1, <3>2
  <2> QED BY <2>2 DEF Whole
<1>11. CASE kind = "begin"
  <2>1. begun' = {next} /\ last_committed_height' = last_committed_height /\ next' = next
    BY <1>1, <1>11 DEF BeginSynced
  <2>2. /\ HeightsOf(f, "begin") = HeightsOf(file, "begin") \cup {next}
        /\ HeightsOf(f, "commit") = HeightsOf(file, "commit")
    BY <1>6, <1>9, <1>11
  <2>3. /\ \A h \in HeightsOf(f, "commit") : h <= last_committed_height
        /\ \A h \in HeightsOf(f, "begin") : h \in HeightsOf(f, "commit") \cup {next}
        /\ {next} \subseteq HeightsOf(f, "begin")
    BY <1>3, <1>11, <2>2
  <2>4. LogUp'
    BY <1>3, <1>8, <1>10, <2>1, <2>3 DEF LogUp, Whole, HeightsOf
  <2> QED BY <1>2, <1>8, <1>9, <2>1, <2>4 DEF LogInv
<1>12. CASE kind = "commit"
  <2>1. begun' = {} /\ last_committed_height' = next /\ next' = next + 1
    BY <1>1, <1>3, <1>12 DEF CommitSynced
  <2>2. /\ HeightsOf(f, "begin") = HeightsOf(file, "begin")
        /\ HeightsOf(f, "commit") = HeightsOf(file, "commit") \cup {next}
        /\ HeightsOf(file, "commit") \subseteq Nat
    <3>1. HeightsOf(w, "begin") = {} /\ HeightsOf(w, "commit") = {next}
      BY <1>6, <1>12
    <3>2. HeightsOf(file, "commit") \subseteq Nat
      BY <1>2, HeightsAre
    <3> QED BY <1>9, <3>1, <3>2
  <2>3. /\ \A h \in HeightsOf(f, "commit") : h <= next
        /\ \A h \in HeightsOf(f, "begin") : h \in HeightsOf(f, "commit")
    BY <1>2, <1>3, <2>2
  <2>4. LogUp'
    <3>1. next < next + 1
      BY <1>2
    <3> QED BY <1>3, <1>8, <1>10, <2>1, <2>3, <3>1 DEF LogUp, Whole, HeightsOf
  <2> QED BY <1>2, <1>8, <1>9, <2>1, <2>4 DEF LogInv
<1> QED BY <1>11, <1>12

\* compact drops what is committed and nothing else.
LEMMA CompactKeepsLog ==
  ASSUME LogInv, Compact \/ CompactSynced
  PROVE  LogInv'
<1>1. CASE Compact
  <2>1. /\ node = "up" /\ call = "none" /\ LogUp /\ file \in Seq(Entries)
        /\ last_committed_height \in Nat /\ next \in Nat \ {0}
    BY <1>1 DEF LogInv, Compact
  <2>2. Whole(file) /\ ReadAllEntries(file) = file
    BY <2>1, ReadWhole DEF LogUp
  <2>3. PICK r : r = Remaining(file, last_committed_height)
    OBVIOUS
  <2>4. writing' = r /\ call' = "compact"
        /\ UNCHANGED <<magic, file, last_committed_height, node, next, begun, doubtful, compacted>>
    BY <1>1, <2>2, <2>3 DEF Compact
  <2>5. /\ r \in Seq(Entries) /\ Whole(r)
        /\ \A k : HeightsOf(r, k) = {h \in HeightsOf(file, k) : h > last_committed_height}
    BY <2>1, <2>2, <2>3, RemainingFacts
  <2>6. \A k : HeightsOf(file, k) \subseteq Nat
    BY <2>1, HeightsAre
  <2>7. /\ last_committed_height < next
        /\ \A h \in HeightsOf(file, "commit") : h <= last_committed_height
        /\ \A h \in HeightsOf(file, "begin") : h \in HeightsOf(file, "commit") \cup begun
        /\ begun \subseteq {next} /\ begun \subseteq HeightsOf(file, "begin")
    BY <2>1 DEF LogUp
  <2>8. HeightsOf(r, "commit") = {}
    BY <2>1, <2>5, <2>6, <2>7
  <2>9. HeightsOf(r, "begin") = begun
    <3>1. ASSUME NEW h \in HeightsOf(r, "begin") PROVE h \in begun
      <4>1. h \in HeightsOf(file, "begin") /\ h > last_committed_height
        BY <2>5
      <4>2. h \notin HeightsOf(file, "commit")
        BY <2>1, <2>6, <2>7, <4>1
      <4> QED BY <2>7, <4>1, <4>2
    <3>2. ASSUME NEW h \in begun PROVE h \in HeightsOf(r, "begin")
      <4>1. h \in HeightsOf(file, "begin") /\ h = next
        BY <2>7
      <4> QED BY <2>1, <2>5, <2>7, <4>1
    <3> QED BY <3>1, <3>2
  <2>10. LogUp'
    <3>1. /\ Whole(r) /\ HeightsOf(r, "commit") = {} /\ HeightsOf(r, "begin") = begun
      BY <2>5, <2>8, <2>9
    <3>2. /\ magic = "ok" /\ doubtful = {} /\ compacted = FALSE
      BY <2>1 DEF LogUp
    <3>3. /\ Whole(file)' /\ HeightsOf(file, "commit")' = HeightsOf(file, "commit")
          /\ HeightsOf(file, "begin")' = HeightsOf(file, "begin")
      BY <2>2, <2>4 DEF Whole, HeightsOf
    <3>4. /\ Whole(writing)' /\ HeightsOf(writing, "commit")' = {}
          /\ HeightsOf(writing, "begin")' = begun'
      BY <2>4, <3>1 DEF Whole, HeightsOf
    <3> QED BY <2>4, <2>7, <3>2, <3>3, <3>4 DEF LogUp
  <2> QED BY <2>1, <2>4, <2>5, <2>10 DEF LogInv
<1>2. CASE CompactSynced
  <2>1. call = "compact" /\ file' = writing /\ writing' = <<>> /\ call' = "none"
        /\ UNCHANGED <<magic, last_committed_height, node, next, begun, doubtful, compacted>>
    BY <1>2 DEF CompactSynced
  <2>2. /\ node = "up" /\ LogUp /\ writing \in Seq(Entries)
        /\ last_committed_height \in Nat /\ next \in Nat \ {0}
    BY <2>1 DEF LogInv, LogDown
  <2>3. Whole(writing) /\ HeightsOf(writing, "commit") = {} /\ HeightsOf(writing, "begin") = begun
    BY <2>1, <2>2 DEF LogUp
  <2>5. LogUp'
    BY <2>1, <2>2, <2>3 DEF LogUp, Whole, HeightsOf
  <2>6. <<>> \in Seq(Entries)
    BY EmptyLog
  <2> QED BY <2>1, <2>2, <2>5, <2>6 DEF LogInv
<1> QED BY <1>1, <1>2

\* What is cut or read is a log again.
LEMMA CutIsLog ==
  ASSUME NEW w \in Seq(Entries), NEW cut \in Cuts(w)
  PROVE  cut \in Seq(Entries)
<1>0. Len(w) \in Nat /\ \A i \in 1 .. Len(w) : w[i] \in Entries
  OBVIOUS
<1>1. ASSUME NEW n \in 0 .. Len(w)
      PROVE  SubSeq(w, 1, n) \in Seq(Entries) /\ Len(SubSeq(w, 1, n)) = n
  BY <1>0
<1>2. ASSUME NEW n \in 1 .. Len(w), NEW part \in {"unmarked", "torn"}
      PROVE  Cut(w, n, part) \in Seq(Entries)
  <2>1. PICK u : u = SubSeq(w, 1, n)
    OBVIOUS
  <2>2. u \in Seq(Entries) /\ Len(u) = n
    BY <1>0, <2>1
  <2>3. u[n] \in Entries
    BY <2>2
  <2>4. PICK x : x = [u[n] EXCEPT !.part = part]
    OBVIOUS
  <2>5. x \in Entries
    BY <2>3, <2>4 DEF Entries
  <2>6. Cut(w, n, part) = [u EXCEPT ![n] = x]
    BY <2>1, <2>4 DEF Cut
  <2> QED BY <2>2, <2>5, <2>6
<1>3. \/ \E n \in 0 .. Len(w) : cut = SubSeq(w, 1, n)
      \/ \E n \in 1 .. Len(w), part \in {"unmarked", "torn"} : cut = Cut(w, n, part)
  BY DEF Cuts
<1> QED BY <1>1, <1>2, <1>3

\* What is read is a log.
LEMMA ReadIsLog ==
  ASSUME NEW f \in Seq(Entries)
  PROVE  ReadAllEntries(f) \in Seq(Entries)
<1>0. Len(f) \in Nat /\ DOMAIN f = 1 .. Len(f) /\ \A i \in 1 .. Len(f) : f[i] \in Entries
  OBVIOUS
<1>1. PICK n \in 0 .. Len(f) : n = Cardinality(WholePrefix(f))
  <2>1. WholePrefix(f) \subseteq 1 .. Len(f)
    BY <1>0 DEF WholePrefix
  <2>0. PICK m \in Nat : m = Len(f)
    BY <1>0
  <2>2. IsFiniteSet(1 .. Len(f)) /\ Cardinality(1 .. Len(f)) = Len(f)
    <3>1. IsFiniteSet(1 .. m)
      BY FS_Interval
    <3>2. Cardinality(1 .. m) = m
      BY FS_Interval
    <3> QED BY <2>0, <3>1, <3>2
  <2>3. /\ IsFiniteSet(WholePrefix(f)) /\ Cardinality(WholePrefix(f)) \in Nat
        /\ Cardinality(WholePrefix(f)) <= Len(f)
    BY <2>1, <2>2, FS_Subset, FS_CardinalityType
  <2> QED BY <1>0, <2>3
<1>2. PICK u : u = SubSeq(f, 1, n)
  OBVIOUS
<1>3. u \in Seq(Entries)
  BY <1>0, <1>2
<1>4. CASE n + 1 < Len(f) /\ f[n + 1].part = "unmarked"
  <2>1. PICK x : x = Misread(f, n + 1)
    OBVIOUS
  <2>2. x \in Entries
    <3>1. f[n + 1].height \in Nat
      BY <1>0, <1>4 DEF Entries
    <3> QED BY <2>1, <3>1 DEF Misread, Entry, Entries
  <2>3. ReadAllEntries(f) = Append(u, x)
    BY <1>1, <1>2, <1>4, <2>1 DEF ReadAllEntries
  <2> QED BY <1>3, <2>2, <2>3
<1>5. CASE ~(n + 1 < Len(f) /\ f[n + 1].part = "unmarked")
  <2>1. ReadAllEntries(f) = u
    BY <1>1, <1>2, <1>5 DEF ReadAllEntries
  <2> QED BY <1>3, <2>1
<1> QED BY <1>4, <1>5

\* A crash: what is read back is what was synced and some of what was written.
LEMMA CrashKeepsLog ==
  ASSUME LogInv, Crash
  PROVE  LogInv'
<1>1. /\ node' = "down" /\ writing' = <<>> /\ call' = "none"
      /\ UNCHANGED <<last_committed_height, next, begun>>
      /\ compacted' = (compacted \/ call = "compact")
      /\ doubtful' = IF call \in {"begin", "commit"} THEN doubtful \cup {next} ELSE doubtful
  BY DEF Crash
<1>2. /\ file \in Seq(Entries) /\ writing \in Seq(Entries) /\ next \in Nat \ {0}
      /\ last_committed_height \in Nat
  BY DEF LogInv
<1>3. PICK left \in AfterCrash : magic' = left.magic /\ file' = left.file
  BY DEF Crash
<1>4. CASE node = "opened"
  <2>1. LogDown /\ writing = <<>> /\ call = "none"
    BY <1>4 DEF LogInv, LogDown
  <2>2. left \in {[magic |-> magic, file |-> file \o cut] : cut \in {<<>>}}
    BY <1>3, <2>1, EmptyLog DEF AfterCrash
  <2>3. left = [magic |-> magic, file |-> file \o <<>>]
    BY <2>2
  <2>4. file \o <<>> = file
    BY <1>2
  <2>5. magic' = magic /\ file' = file
    BY <1>3, <2>3, <2>4
  <2>6. ReadAllEntries(file)' = ReadAllEntries(file)
    BY <2>5 DEF ReadAllEntries, WholePrefix, Misread
  <2>7. PICK R : R = ReadAllEntries(file) /\ R = ReadAllEntries(file)'
    BY <2>6
  <2>8. /\ \A h \in HeightsOf(R, "commit") : h <= next
        /\ RecoverUncommitted(R) \subseteq begun \cup doubtful
        /\ begun \subseteq RecoverUncommitted(R) \/ compacted
        /\ magic # "part"
    BY <1>4, <2>1, <2>7 DEF LogDown
  <2>9. doubtful' = doubtful /\ (compacted' <=> compacted)
    BY <1>1, <2>1
  <2>10. LogDown'
    BY <1>1, <2>5, <2>7, <2>8, <2>9 DEF LogDown
  <2>11. <<>> \in Seq(Entries)
    BY EmptyLog
  <2> QED BY <1>1, <1>2, <2>5, <2>10, <2>11 DEF LogInv
<1>5. CASE node = "up"
  <2>1. LogUp
    BY <1>5 DEF LogInv
  <2>2. /\ magic = "ok" /\ Whole(file) /\ doubtful = {} /\ compacted = FALSE
        /\ last_committed_height < next
        /\ \A h \in HeightsOf(file, "commit") : h <= last_committed_height
        /\ \A h \in HeightsOf(file, "begin") :
             h \in HeightsOf(file, "commit") \cup begun \/ (call = "commit" /\ h = next)
        /\ begun \subseteq {next} /\ begun \subseteq HeightsOf(file, "begin")
        /\ call \in {"none", "begin", "commit", "compact"}
    BY <2>1 DEF LogUp
  <2>3. \A k : HeightsOf(file, k) \subseteq Nat
    BY <1>2, HeightsAre
  <2>4. ASSUME NEW f \in Seq(Entries), NEW R, file' = f, R = ReadAllEntries(f),
               \A h \in HeightsOf(R, "commit") : h <= next,
               RecoverUncommitted(R) \subseteq begun \cup doubtful',
               begun \subseteq RecoverUncommitted(R) \/ compacted',
               magic' = "part" => compacted'
        PROVE  LogInv'
    <3>1. R = ReadAllEntries(file)'
      BY <2>4 DEF ReadAllEntries, WholePrefix, Misread
    <3>2. LogDown'
      BY <1>1, <2>4, <3>1 DEF LogDown
    <3>3. <<>> \in Seq(Entries)
      BY EmptyLog
    <3> QED BY <1>1, <1>2, <2>4, <3>2, <3>3 DEF LogInv
  <2>5. CASE call # "compact"
    <3>1. PICK cut \in Cuts(writing) : left = [magic |-> magic, file |-> file \o cut]
      BY <1>3, <2>5 DEF AfterCrash
    <3>2. PICK f : f = file \o cut
      OBVIOUS
    <3>3. file' = f /\ magic' = "ok"
      BY <1>3, <2>2, <3>1, <3>2
    <3>4. /\ Whole(writing)
          /\ \A k \in {"begin", "commit"} :
               HeightsOf(writing, k) = IF k = call THEN {next} ELSE {}
      <4>1. CASE call = "none"
        <5>1. writing = <<>>
          BY <2>1, <4>1 DEF LogUp
        <5>2. \A k : HeightsOf(writing, k) = {}
          BY <5>1, EmptyLog
        <5> QED BY <4>1, <5>1, <5>2, EmptyLog
      <4>2. CASE call \in {"begin", "commit"}
        <5>1. writing = <<Entry(call, next, "whole")>>
          BY <2>1, <4>2 DEF LogUp
        <5>2. PICK kind \in {"begin", "commit"} : kind = call
          BY <4>2
        <5>3. writing = <<Entry(kind, next, "whole")>>
          BY <5>1, <5>2
        <5>4. Whole(writing) /\ \A k : HeightsOf(writing, k) = IF k = kind THEN {next} ELSE {}
          BY <1>2, <5>3, EntryFacts
        <5> QED BY <5>2, <5>4
      <4> QED BY <2>2, <2>5, <4>1, <4>2
    <3>5. PICK R : R = ReadAllEntries(f)
      OBVIOUS
    <3>6. /\ f \in Seq(Entries)
          /\ \A k : /\ HeightsOf(file, k) \subseteq HeightsOf(R, k)
                   /\ HeightsOf(R, k) \subseteq HeightsOf(file, k) \cup HeightsOf(writing, k)
      <4>1. ReadBack(f, file, writing)
        BY <1>2, <2>2, <3>2, <3>4, ReadCut
      <4> QED BY <3>5, <4>1 DEF ReadBack
    <3>7. \A h \in HeightsOf(R, "commit") : h <= next
      BY <1>2, <2>2, <2>3, <3>4, <3>6
    <3>8. RecoverUncommitted(R) \subseteq begun \cup doubtful'
      <4> SUFFICES ASSUME NEW h \in HeightsOf(R, "begin"), h \notin HeightsOf(R, "commit")
                   PROVE  h \in begun \cup doubtful'
        BY DEF RecoverUncommitted
      <4>1. h \notin HeightsOf(file, "commit")
        BY <3>6
      <4>2. CASE h \in HeightsOf(file, "begin")
        BY <1>1, <2>2, <4>1, <4>2
      <4>3. CASE h \in HeightsOf(writing, "begin")
        BY <1>1, <3>4, <4>3
      <4> QED BY <3>6, <4>2, <4>3
    <3>9. begun \subseteq RecoverUncommitted(R)
      <4>1. CASE call \in {"begin", "commit"}
        BY <2>1, <4>1 DEF LogUp
      <4>2. CASE call = "none"
        <5>1. HeightsOf(R, "commit") \subseteq HeightsOf(file, "commit")
          BY <3>4, <3>6, <4>2
        <5>2. next \notin HeightsOf(R, "commit")
          BY <1>2, <2>2, <2>3, <5>1
        <5> QED BY <2>2, <3>6, <5>2 DEF RecoverUncommitted
      <4> QED BY <2>2, <2>5, <4>1, <4>2
    <3> QED BY <2>4, <3>3, <3>5, <3>6, <3>7, <3>8, <3>9
  <2>6. CASE call = "compact"
    <3>0. compacted' = TRUE
      BY <1>1, <2>6
    <3>1. Whole(writing) /\ HeightsOf(writing, "commit") = {} /\ HeightsOf(writing, "begin") = begun
      BY <2>1, <2>6 DEF LogUp
    <3>2. ASSUME NEW f \in Seq(Entries), NEW R, file' = f, R = ReadAllEntries(f),
                 \A h \in HeightsOf(R, "commit") : h <= next,
                 \A h \in HeightsOf(R, "begin") : h \in HeightsOf(R, "commit") \cup begun
          PROVE  LogInv'
      <4>1. RecoverUncommitted(R) \subseteq begun \cup doubtful'
        BY <3>2 DEF RecoverUncommitted
      <4> QED BY <2>4, <3>0, <3>2, <4>1
    <3>3. \/ left = [magic |-> "ok", file |-> file]
          \/ \E m \in {"none", "part"} : left = [magic |-> m, file |-> <<>>]
          \/ \E cut \in Cuts(writing) : left = [magic |-> "ok", file |-> cut]
      BY <1>3, <2>6 DEF AfterCrash
    <3>4. CASE left = [magic |-> "ok", file |-> file]
      <4>1. file' = file
        BY <1>3, <3>4
      <4>2. ReadAllEntries(file) = file
        BY <1>2, <2>2, ReadWhole
      <4>3. \A h \in HeightsOf(file, "commit") : h <= next
        BY <1>2, <2>2, <2>3
      <4> QED BY <1>2, <2>2, <2>6, <3>2, <4>1, <4>2, <4>3
    <3>5. CASE \E m \in {"none", "part"} : left = [magic |-> m, file |-> <<>>]
      <4>1. PICK f : f = <<>>
        OBVIOUS
      <4>2. file' = f
        BY <1>3, <3>5, <4>1
      <4>3. f \in Seq(Entries) /\ Whole(f) /\ \A k : HeightsOf(f, k) = {}
        BY <4>1, EmptyLog
      <4>4. ReadAllEntries(f) = f
        BY <4>3, ReadWhole
      <4> QED BY <3>2, <4>2, <4>3, <4>4
    <3>6. CASE \E cut \in Cuts(writing) : left = [magic |-> "ok", file |-> cut]
      <4>1. PICK cut \in Cuts(writing) : left = [magic |-> "ok", file |-> cut]
        BY <3>6
      <4>2. PICK s : s = <<>>
        OBVIOUS
      <4>3. s \in Seq(Entries) /\ Whole(s) /\ \A k : HeightsOf(s, k) = {}
        BY <4>2, EmptyLog
      <4>4. ReadBack(s \o cut, s, writing)
        BY <1>2, <3>1, <4>3, ReadCut
      <4>5. s \o cut = cut
        <5>1. cut \in Seq(Entries)
          BY <1>2, CutIsLog
        <5> QED BY <4>2, <5>1
      <4>6. PICK R : R = ReadAllEntries(cut)
        OBVIOUS
      <4>7. cut \in Seq(Entries) /\ \A k : HeightsOf(R, k) \subseteq HeightsOf(writing, k)
        BY <4>3, <4>4, <4>5, <4>6 DEF ReadBack
      <4>8. HeightsOf(R, "commit") = {} /\ HeightsOf(R, "begin") \subseteq begun
        BY <3>1, <4>7
      <4>9. file' = cut
        BY <1>3, <4>1
      <4> QED BY <3>2, <4>6, <4>7, <4>8, <4>9
    <3> QED BY <3>3, <3>4, <3>5, <3>6
  <2> QED BY <2>5, <2>6
<1> QED BY <1>4, <1>5 DEF Crash

\* Opening the log after a crash, and recovering.
LEMMA OpenKeepsLog ==
  ASSUME LogInv, Open
  PROVE  LogInv'
<1>1. /\ node = "down" /\ LogDown /\ file \in Seq(Entries) /\ next \in Nat \ {0}
      /\ last_committed_height \in Nat /\ writing \in Seq(Entries)
  BY DEF Open, LogInv
<1>2. UNCHANGED <<file, writing, call, next, begun, doubtful, compacted>>
  BY DEF Open
<1>3. call = "none"
  BY <1>1 DEF LogDown
<1>4. CASE magic = "part"
  <2>1. node' = "failed" /\ last_committed_height' = last_committed_height
    BY <1>4 DEF Open
  <2>2. compacted
    BY <1>1, <1>4 DEF LogDown
  <2> QED BY <1>1, <1>2, <1>3, <2>1, <2>2 DEF LogInv
<1>5. CASE magic # "part"
  <2>1. PICK R : R = ReadAllEntries(file)
    OBVIOUS
  <2>2. /\ node' = "opened" /\ magic' = "ok" /\ last_committed_height' = ScanLastCommitted(R)
    BY <1>5, <2>1 DEF Open
  <2>3. R = ReadAllEntries(file)'
    BY <1>2, <2>1 DEF ReadAllEntries, WholePrefix, Misread
  <2>4. R \in Seq(Entries)
    BY <1>1, <2>1, ReadIsLog
  <2>5. /\ last_committed_height' \in {0} \cup HeightsOf(R, "commit")
        /\ HeightsOf(R, "commit") \subseteq Nat
    BY <2>2, <2>4, ScanFacts, HeightsAre
  <2>6. /\ writing = <<>> /\ call = "none"
        /\ \A h \in HeightsOf(R, "commit") : h <= next
        /\ RecoverUncommitted(R) \subseteq begun \cup doubtful
        /\ begun \subseteq RecoverUncommitted(R) \/ compacted
    BY <1>1, <2>1 DEF LogDown
  <2>7. LogDown'
    BY <1>2, <2>2, <2>3, <2>5, <2>6 DEF LogDown
  <2> QED BY <1>1, <1>2, <2>2, <2>5, <2>7 DEF LogInv
<1> QED BY <1>4, <1>5

\* recover_uncommitted followed by truncate_after_recovery.
LEMMA RecoverKeepsLog ==
  ASSUME LogInv, Recover, AlwaysTruncates
  PROVE  LogInv'
<1>1. PICK R : R = ReadAllEntries(file)
  OBVIOUS
<1>2. /\ node = "opened" /\ LogDown /\ file \in Seq(Entries) /\ next \in Nat \ {0}
      /\ last_committed_height \in Nat
  BY DEF Recover, LogInv
<1>3. /\ node' = "up" /\ begun' = {} /\ doubtful' = {} /\ compacted' = FALSE
      /\ UNCHANGED <<magic, writing, call, last_committed_height>>
      /\ next' = IF next \in HeightsOf(R, "commit") THEN next + 1 ELSE next
      /\ file' = <<>>
  BY <1>1 DEF Recover
<1>4. /\ writing = <<>> /\ call = "none" /\ magic = "ok"
      /\ \A h \in HeightsOf(R, "commit") : h <= next
      /\ last_committed_height \in {0} \cup HeightsOf(R, "commit")
  BY <1>1, <1>2 DEF LogDown
<1>5. last_committed_height < next' /\ next' \in Nat \ {0}
  BY <1>2, <1>3, <1>4
<1>6. /\ <<>> \in Seq(Entries) /\ Whole(<<>>) /\ HeightsOf(<<>>, "begin") = {}
      /\ HeightsOf(<<>>, "commit") = {}
  BY EmptyLog
<1>7. Whole(file)' /\ HeightsOf(file, "begin")' = {} /\ HeightsOf(file, "commit")' = {}
  BY <1>3, <1>6 DEF Whole, HeightsOf
<1>8. LogUp'
  BY <1>2, <1>3, <1>4, <1>5, <1>7 DEF LogUp
<1> QED BY <1>2, <1>3, <1>4, <1>5, <1>6, <1>8 DEF LogInv

\* The log on disk, the writes that are not yet synced and what the caller knows
\* fit together, through crashes at any write (begin_block, commit_block, compact,
\* open, recover_uncommitted).
THEOREM LogInvariant ==
  ASSUME AlwaysTruncates
  PROVE  WalSpec => []LogInv
<1>1. WalInit => LogInv
  BY EmptyLog DEF WalInit, LogInv, LogUp
<1>2. LogInv /\ [WalNext]_walVars => LogInv'
  <2> SUFFICES ASSUME LogInv, [WalNext]_walVars PROVE LogInv'
    OBVIOUS
  <2>1. CASE UNCHANGED walVars
    <3>1. UNCHANGED <<magic, file, writing, call, last_committed_height, node, next, begun,
                      doubtful, compacted>>
      BY <2>1 DEF walVars
    <3>2. ReadAllEntries(file)' = ReadAllEntries(file)
      BY <3>1 DEF ReadAllEntries, WholePrefix, Misread
    <3>3. LogUp => LogUp'
      BY <3>1 DEF LogUp, Whole, HeightsOf, Entry
    <3>4. LogDown => LogDown'
      BY <3>1, <3>2 DEF LogDown, HeightsOf, RecoverUncommitted
    <3> QED BY <3>1, <3>3, <3>4 DEF LogInv
  <2>2. CASE WalNext
    BY <2>2, AppendKeepsLog, SyncKeepsLog, CompactKeepsLog, CrashKeepsLog, OpenKeepsLog,
       RecoverKeepsLog, Zenon DEF WalNext
  <2> QED BY <2>1, <2>2
<1> QED BY <1>1, <1>2, PTL DEF WalSpec

\* RecoveryExact: what was begun and not committed is recovered after any crash,
\* and nothing else than what the crash interrupted, provided the caller empties
\* the log whenever it has recovered.
THEOREM RecoveryExactHolds ==
  ASSUME AlwaysTruncates
  PROVE  WalSpec => []RecoveryExact
<1>1. LogInv => RecoveryExact
  BY DEF LogInv, LogDown, RecoveryExact
<1> QED BY <1>1, LogInvariant, PTL
================================================================================
