--------------------------- MODULE FinalityTracker ---------------------------
(***************************************************************************)
(* The finality tracker: a window of finality records by height.  The      *)
(* oldest record is pruned when the window is full, and a height that was  *)
(* pruned once must not be recorded again.  A height below the latest one  *)
(* (a back-fill) is accepted only if a proposal was seen for it.           *)
(***************************************************************************)
EXTENDS Integers, FiniteSets, FiniteSetsExt

CONSTANTS
  Heights,      \* block heights
  Hashes,       \* block hashes
  Signers,      \* validators that may sign a certificate
  MaxRecords    \* max_records

\* Blocks are numbered from 1: the genesis block is not committed, and the
\* tracker's guards leave height 0 out.
ASSUME TrackerAssumption ==
  MaxRecords \in Nat \ {0} /\ Heights \subseteq Nat \ {0}

VARIABLES
  records,           \* height -> block hash
  latest_finalized,
  total_finalized,
  seen_proposals,
  superseded_floor,
  ever               \* history: every (height, hash) that was ever recorded

trackerVars == <<records, latest_finalized, total_finalized, seen_proposals,
                 superseded_floor, ever>>

MaxSeen == 2 * MaxRecords

TrackerInit ==
  /\ records = [h \in {} |-> 0]
  /\ latest_finalized = 0
  /\ total_finalized = 0
  /\ seen_proposals = {}
  /\ superseded_floor = 0
  /\ ever = {}

\* observe_proposal: beyond the cap the lowest height seen is forgotten.
ObserveProposal(h) ==
  /\ LET seen == seen_proposals \cup {h} IN
     seen_proposals' = IF h \notin seen_proposals /\ Cardinality(seen) > MaxSeen
                       THEN seen \ {Min(seen)} ELSE seen
  /\ UNCHANGED <<records, latest_finalized, total_finalized, superseded_floor, ever>>

\* The guards of on_block_finalized_with_active, in their order.
AllActive(signers, active) == signers \subseteq active
NotRecorded(h) == h \notin DOMAIN records
AboveFloorAlways(h) == TRUE
AboveFloor(h) == h = 0 \/ h > superseded_floor
BackfillSeen(h) ==
  \/ latest_finalized = 0
  \/ h >= latest_finalized
  \/ h \in seen_proposals
AtLeastTwoThirds(signing, total) == total = 0 \/ signing * 3 >= total * 2
TwoThirds(signing, total) == total = 0 \/ signing * 3 > total * 2

Accepts(h, signers, active, signing, total) ==
  /\ AllActive(signers, active)
  /\ NotRecorded(h)
  /\ AboveFloor(h)
  /\ BackfillSeen(h)
  /\ signers # {}
  /\ TwoThirds(signing, total)

\* Insertion, and the pruning of the lowest heights beyond max_records.
KeptOldest(all) == {g \in all : Cardinality({k \in all : k < g}) < MaxRecords}
Kept(all) == {g \in all : Cardinality({k \in all : k > g}) < MaxRecords}

LatestReported(h) == h
Latest(h) == Max({latest_finalized, h})

Record(h, hash) ==
  LET all  == DOMAIN records \cup {h}
      kept == Kept(all)
  IN /\ records' = [g \in kept |-> IF g = h THEN hash ELSE records[g]]
     /\ superseded_floor' = Max({superseded_floor} \cup (all \ kept))
     /\ latest_finalized' = Latest(h)
     /\ total_finalized' = total_finalized + 1
     /\ ever' = ever \cup {<<h, hash>>}
     /\ UNCHANGED seen_proposals

OnBlockFinalized(h, hash, signers, active, signing, total) ==
  \/ Accepts(h, signers, active, signing, total) /\ Record(h, hash)
  \/ ~Accepts(h, signers, active, signing, total) /\ UNCHANGED trackerVars

\* finality_status: everything up to the latest finalized height counts as
\* finalized, with or without a record.
Status(h) ==
  IF h \in DOMAIN records \/ (h # 0 /\ h <= latest_finalized)
  THEN "finalized" ELSE "unknown"

IsBlockFinalized(h, hash) == h \in DOMAIN records /\ records[h] = hash

-----------------------------------------------------------------------------
\* The tracker on its own: its callers may report any height in any order
\* (consensus commits, gossiped and synced blocks, replays of old ones), each
\* signer having one unit of stake.
TrackerNext ==
  \E h \in Heights :
    \/ ObserveProposal(h)
    \/ \E hash \in Hashes, signers, active \in SUBSET Signers :
         OnBlockFinalized(h, hash, signers, active, Cardinality(signers),
                          Cardinality(active))

TrackerSpec == TrackerInit /\ [][TrackerNext]_trackerVars

-----------------------------------------------------------------------------
EverRecorded == {p[1] : p \in ever}

TrackerTypeOK ==
  /\ DOMAIN records \subseteq EverRecorded
  /\ Cardinality(DOMAIN records) <= MaxRecords
  /\ Cardinality(seen_proposals) <= MaxSeen
  /\ latest_finalized \in EverRecorded \cup {0}

\* A height is recorded once in the life of the tracker, with one block hash,
\* whatever was pruned in between, and total_finalized counts it once
\* (on_block_finalized_with_active and its pruning watermark).
RecordedOnce ==
  /\ \A p, q \in ever : p[1] = q[1] => p = q
  /\ total_finalized = Cardinality(ever)

\* The window holds the newest heights ever recorded: what was pruned lies at
\* or below superseded_floor, what is held lies above it.
WindowIsNewest ==
  /\ \A h \in EverRecorded : h \in DOMAIN records <=> h > superseded_floor
  /\ superseded_floor \in EverRecorded \cup {0}

\* A height reported as finalized stays finalized, and the confirmations that
\* finality_status reports for it never shrink.
FinalityIsStable ==
  [][\A h \in Heights : Status(h) = "finalized" =>
       (Status(h)' = "finalized" /\ latest_finalized' >= latest_finalized)]_trackerVars
=============================================================================
