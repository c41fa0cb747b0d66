------------------------------ MODULE Evaporation ------------------------------
(***************************************************************************)
(* The life of a state object: it is created with energy that decays by    *)
(* half-lives, enters grace when the energy is gone, evaporates into a     *)
(* ghost when grace is over, and can be refreshed before and resurrected   *)
(* after that.  Every node executes the same blocks, one epoch each: a     *)
(* transaction, then the evaporation sweep.  The sweep visits the objects  *)
(* in the iteration order of a hash map, which differs from node to node.  *)
(***************************************************************************)
EXTENDS Integers, Sequences, FiniteSets, SequencesExt, Collections

CONSTANTS
  Nodes,
  ObjectIds,
  Owners,               \* accounts, all of which exist
  Energies,             \* energy of a creation or a refresh
  EnergyBits,           \* width of an energy: 64 in the code
  half_life,
  grace_period,
  max_scan_per_epoch,
  BASE_OBJECT_BYTES,    \* charged for an object besides its data
  DataBytes,            \* length of an object's data
  MaxEpoch              \* bound on the blocks of a run

ASSUME EvaporationAssumption ==
  /\ half_life \in Nat \ {0} /\ grace_period \in Nat \ {0}
  /\ EnergyBits \in Nat \ {0} /\ max_scan_per_epoch \in Nat
  /\ IsFiniteSet(ObjectIds)

\* 2^k, as a recursive function so that the proofs can unfold it.
PowerOf2[k \in 0 .. EnergyBits] == IF k = 0 THEN 1 ELSE 2 * PowerOf2[k - 1]
MaxEnergy == PowerOf2[EnergyBits] - 1

ASSUME EnergyAssumption == Energies \subseteq 1 .. MaxEnergy

VARIABLES
  db,      \* node -> [objects, ghosts, storage_bytes, mmr]
  epoch    \* the epoch of the next block

evaporationVars == <<db, epoch>>

EmptyDb == [objects |-> [id \in {} |-> 0], ghosts |-> [id \in {} |-> 0],
            storage_bytes |-> [a \in Owners |-> 0], mmr |-> <<>>]

EvaporationInit == db = [n \in Nodes |-> EmptyDb] /\ epoch = 1

-----------------------------------------------------------------------------
\* energy_at_epoch: halvings, and a linear share of the next one.
EnergyAtEpoch(initial, elapsed) ==
  IF elapsed \div half_life >= EnergyBits THEN 0
  ELSE LET after == initial \div PowerOf2[elapsed \div half_life]
       IN after - (after * (elapsed % half_life)) \div (2 * half_life)

EnergyNow(obj) == EnergyAtEpoch(obj.energy, epoch - obj.last_refreshed)

\* The position of the highest bit, what leading_zeros gives.
Log2(energy) ==
  CHOOSE k \in 0 .. EnergyBits - 1 : PowerOf2[k] <= energy /\ energy < PowerOf2[k + 1]

\* epochs_until_zero
EpochsUntilZero(energy) == IF energy = 0 THEN 0 ELSE (Log2(energy) + 1) * half_life

Live(obj) == obj.state \in {"Active", "Resurrected"}

-----------------------------------------------------------------------------
\* The transactions.  charge is history: the energy as of last_refreshed.
Object(owner, energy, state) ==
  [owner |-> owner, energy |-> energy, charge |-> energy, last_refreshed |-> epoch,
   state |-> state, grace_epoch |-> 0]

\* exec_create_object
WithCreate(d, id, owner, energy) ==
  IF id \in DOMAIN d.objects THEN d
  ELSE [d EXCEPT !.objects = With(@, id, Object(owner, energy, "Active")),
                 !.storage_bytes[owner] = @ + BASE_OBJECT_BYTES + DataBytes]

SaturatingAdd(a, b) == IF a + b > MaxEnergy THEN MaxEnergy ELSE a + b

\* RefreshEngine::refresh: in grace the deposit replaces what is left.
Refreshed(obj, deposit) ==
  LET energy == IF Live(obj) THEN SaturatingAdd(obj.energy, deposit) ELSE deposit IN
  [obj EXCEPT !.energy = energy, !.charge = energy, !.last_refreshed = epoch,
              !.state = IF Live(obj) THEN @ ELSE "Active",
              !.grace_epoch = 0]

\* RefreshEngine::resurrect
Resurrected(d, id, deposit) ==
  [d EXCEPT !.objects = With(@, id, Object(d.ghosts[id].owner, deposit, "Resurrected")),
            !.ghosts = Less(@, {id})]

\* exec_refresh
WithRefresh(d, id, deposit) ==
  CASE id \in DOMAIN d.objects -> [d EXCEPT !.objects[id] = Refreshed(@, deposit)]
    [] id \in DOMAIN d.ghosts \ DOMAIN d.objects -> Resurrected(d, id, deposit)
    [] OTHER -> d

-----------------------------------------------------------------------------
\* process_epoch_with_mmr, visiting the objects in a given order.
FirstOnly(order) == IF order = <<>> THEN order ELSE <<order[1]>>
Scanned(order) ==
  IF Len(order) > max_scan_per_epoch THEN SubSeq(order, 1, max_scan_per_epoch) ELSE order

GraceOverLate(obj) == epoch > obj.grace_epoch + grace_period
GraceOver(obj) == epoch >= obj.grace_epoch + grace_period

\* evaporate_object: the leaf, the ghost that points to it, the owner's bytes.
Credited(d, gone, a) ==
  LET bytes == DataBytes * Cardinality({id \in gone : d.objects[id].owner = a})
      left  == d.storage_bytes[a] - bytes
  IN IF left < 0 THEN 0 ELSE left

PositionInSweep(d, i) == i
Position(d, i) == Len(d.mmr) + i

\* What a sweep finds: objects whose energy is gone, and objects whose grace is
\* over, the latter also in the order in which they evaporate.
Visited(order) == Range(Scanned(order))
Spent(d, order) ==
  {id \in Visited(order) : Live(d.objects[id]) /\ EnergyNow(d.objects[id]) = 0}
Gone(d, order) ==
  {id \in Visited(order) : d.objects[id].state = "Grace" /\ GraceOver(d.objects[id])}
Dying(d, order) ==
  Selected(Scanned(order), {i \in DOMAIN Scanned(order) : Scanned(order)[i] \in Gone(d, order)})

InGrace(obj) == [obj EXCEPT !.state = "Grace", !.grace_epoch = epoch, !.energy = 0]

GhostOf(d, order, id) ==
  [owner |-> d.objects[id].owner, evaporated_at |-> epoch,
   mmr_position |-> Position(d, CHOOSE i \in DOMAIN Dying(d, order) : Dying(d, order)[i] = id)]

Leaf(id) == [id |-> id, epoch |-> epoch]

Swept(d, order) ==
  [d EXCEPT
    !.objects = [id \in DOMAIN @ \ Gone(d, order) |->
                   IF id \in Spent(d, order) THEN InGrace(@[id]) ELSE @[id]],
    !.ghosts = [id \in DOMAIN @ \cup Gone(d, order) |->
                  IF id \in Gone(d, order) THEN GhostOf(d, order, id) ELSE @[id]],
    !.storage_bytes = [a \in Owners |-> Credited(d, Gone(d, order), a)],
    !.mmr = @ \o [i \in DOMAIN Dying(d, order) |-> Leaf(Dying(d, order)[i])]]

\* The rest of a block: every node sweeps in an order of its own.
Sweep(after) ==
  /\ epoch <= MaxEpoch
  /\ epoch' = epoch + 1
  /\ \E order \in [Nodes -> UNION {SetToSeqs(DOMAIN after[n].objects) : n \in Nodes}] :
       /\ \A n \in Nodes : Range(order[n]) = DOMAIN after[n].objects
       /\ db' = [n \in Nodes |-> Swept(after[n], order[n])]

CreateObject(id, owner, energy) ==
  /\ \E n \in Nodes : id \notin DOMAIN db[n].objects
  /\ Sweep([n \in Nodes |-> WithCreate(db[n], id, owner, energy)])

Refresh(id, deposit) ==
  /\ \E n \in Nodes : id \in DOMAIN db[n].objects \cup DOMAIN db[n].ghosts
  /\ Sweep([n \in Nodes |-> WithRefresh(db[n], id, deposit)])

EmptyBlock == Sweep(db)

EvaporationNext ==
  \/ \E id \in ObjectIds, owner \in Owners, energy \in Energies : CreateObject(id, owner, energy)
  \/ \E id \in ObjectIds, deposit \in Energies : Refresh(id, deposit)
  \/ EmptyBlock

EvaporationSpec == EvaporationInit /\ [][EvaporationNext]_evaporationVars

-----------------------------------------------------------------------------
\* An object lives as long as its last charge lasts, and then for the grace
\* period, to the epoch: epochs_until_zero predicts when the sweep finds the
\* energy gone, and no object is forgotten or taken early, whatever was
\* refreshed, rescued and resurrected before.
LifeIsExact ==
  \A n \in Nodes : \A id \in DOMAIN db[n].objects :
    LET obj  == db[n].objects[id]
        zero == obj.last_refreshed + EpochsUntilZero(obj.charge)
        last == epoch - 1     \* the epoch of the last sweep
    IN IF Live(obj) THEN last < zero
       ELSE /\ obj.grace_epoch = zero
            /\ zero <= last /\ last < zero + grace_period

\* A ghost's position leads to the leaf of the evaporation that made it, the
\* last one of that object.
GhostsProvable ==
  \A n \in Nodes : \A id \in DOMAIN db[n].ghosts :
    LET ghost == db[n].ghosts[id]
        mmr   == db[n].mmr
    IN /\ ghost.mmr_position \in DOMAIN mmr
       /\ mmr[ghost.mmr_position] = [id |-> id, epoch |-> ghost.evaporated_at]
       /\ \A i \in DOMAIN mmr : i > ghost.mmr_position => mmr[i].id # id

\* The state root covers objects and accounts: the nodes agree on them although
\* they sweep in different orders, ...
StateRootsAgree ==
  \A m, n \in Nodes : /\ db[m].objects = db[n].objects
                      /\ db[m].storage_bytes = db[n].storage_bytes

\* ... and on the evaporation proofs, that is on the root of the MMR.
MmrAgrees == \A m, n \in Nodes : db[m].mmr = db[n].mmr

\* An account is charged for the objects it owns and for nothing else.
StorageAccounted ==
  \A n \in Nodes, a \in Owners :
    db[n].storage_bytes[a] = (BASE_OBJECT_BYTES + DataBytes) *
      Cardinality({id \in DOMAIN db[n].objects : db[n].objects[id].owner = a})

\* A refresh adds to the energy an object has, not to what it once had.
RefreshAddsToCurrent ==
  [][\A n \in Nodes : \A id \in DOMAIN db[n].objects \cap DOMAIN db'[n].objects :
       LET obj == db[n].objects[id]
           new == db'[n].objects[id]
       IN (Live(obj) /\ new.last_refreshed # obj.last_refreshed) =>
            new.charge <= EnergyNow(obj) + CHOOSE e \in Energies : \A f \in Energies : f <= e
    ]_evaporationVars
================================================================================
