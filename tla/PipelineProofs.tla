---------------------------- MODULE PipelineProofs ----------------------------
(***************************************************************************)
(* The finality tracker and on_block_committed, for every validator set,   *)
(* queue of changes, epoch length and window of finality records.  A       *)
(* height is recorded once, the window holds the newest heights, and what  *)
(* was final stays final.  No queued change is lost or settled twice, a    *)
(* boundary stays within its churn limits, the quorums before and after it *)
(* meet, and a certified block away from a boundary is recorded as final.  *)
(***************************************************************************)
EXTENDS CommitPipeline, SetLemmas

-----------------------------------------------------------------------------
(* The finality tracker.                                                   *)

\* The shape of the state.
TrackerShape ==
  /\ IsFiniteSet(DOMAIN records) /\ IsFiniteSet(ever)
  /\ ever \subseteq Heights \X Hashes
  /\ DOMAIN records \subseteq EverRecorded
  /\ superseded_floor \in Nat /\ latest_finalized \in Nat
  /\ total_finalized \in Nat

\* Everything recorded lies at or below latest_finalized: pruning a record
\* does not take it out of finality_status.
LatestCovers == \A h \in EverRecorded : h <= latest_finalized

\* The window is within its limit.
WindowBounded == Cardinality(DOMAIN records) <= MaxRecords

\* The inductive invariant.  RecordedOnce rests on WindowIsNewest: a height
\* above the floor that is not in the window was never recorded.
TrackerInv ==
  TrackerShape /\ RecordedOnce /\ WindowIsNewest /\ LatestCovers /\ WindowBounded

-----------------------------------------------------------------------------
\* Subsets of naturals that the window deals with are finite.
LEMMA FiniteImage ==
  ASSUME IsFiniteSet(ever)
  PROVE  IsFiniteSet(EverRecorded)
<1> DEFINE fst == [p \in ever |-> p[1]]
<1>1. EverRecorded = {fst[p] : p \in ever}
  BY DEF EverRecorded
<1>2. fst \in Surjection(ever, EverRecorded)
  BY <1>1 DEF Surjection
<1> QED BY <1>2, FS_Surjection

\* Kept is closed upwards: whoever lies above a kept height is kept.
LEMMA KeptUpward ==
  ASSUME NEW all \in SUBSET Nat, IsFiniteSet(all),
         NEW g \in Kept(all), NEW k \in all, k > g
  PROVE  k \in Kept(all)
<1> DEFINE above(x) == {y \in all : y > x}
<1>1. above(k) \subseteq above(g) /\ IsFiniteSet(above(g))
  <2>0. g \in Nat /\ k \in Nat
    BY DEF Kept
  <2>1. above(k) \subseteq above(g)
    <3>1. ASSUME NEW y \in all, y > k PROVE y > g
      <4>1. y \in Nat
        OBVIOUS
      <4> QED BY <2>0, <3>1, <4>1
    <3> QED BY <3>1
  <2>2. above(g) \subseteq all
    OBVIOUS
  <2> QED BY <2>1, <2>2, FS_Subset
<1>2. IsFiniteSet(above(k)) /\ Cardinality(above(k)) <= Cardinality(above(g))
  BY <1>1, FS_Subset
<1>3. Cardinality(above(k)) \in Nat /\ Cardinality(above(g)) \in Nat
  BY <1>1, <1>2, FS_CardinalityType
<1>4. Cardinality(above(g)) < MaxRecords
  BY DEF Kept
<1>5. Cardinality(above(k)) < MaxRecords
  BY <1>2, <1>3, <1>4, TrackerAssumption
<1> QED BY <1>5 DEF Kept

\* At most max_records heights are kept: beside the least one there are only
\* heights above it.
LEMMA KeptBounded ==
  ASSUME NEW all \in SUBSET Nat, IsFiniteSet(all)
  PROVE  IsFiniteSet(Kept(all)) /\ Cardinality(Kept(all)) <= MaxRecords
<1>1. Kept(all) \subseteq all
  BY DEF Kept
<1>2. IsFiniteSet(Kept(all))
  BY <1>1, FS_Subset
<1>3. CASE Kept(all) = {}
  BY <1>2, <1>3, FS_EmptySet, TrackerAssumption
<1>4. CASE Kept(all) # {}
  <2>1. PICK g \in Kept(all) : \A x \in Kept(all) : g <= x
    BY <1>1, <1>4, LeastNatural
  <2> DEFINE above == {k \in all : k > g}
             rest == Kept(all) \ {g}
  <2>2. Cardinality(above) < MaxRecords
    BY DEF Kept
  <2>3. rest \subseteq above
    <3>1. ASSUME NEW x \in rest PROVE x > g
      <4>1. x \in Nat /\ g \in Nat /\ g <= x /\ x # g
        BY <1>1, <2>1
      <4> QED BY <4>1
    <3> QED BY <1>1, <3>1
  <2>4. IsFiniteSet(above)
    <3>1. above \subseteq all
      OBVIOUS
    <3> QED BY <3>1, FS_Subset
  <2>5. IsFiniteSet(rest) /\ Cardinality(rest) <= Cardinality(above)
    BY <2>3, <2>4, FS_Subset
  <2>6. Cardinality(rest) = Cardinality(Kept(all)) - 1
    BY <1>2, FS_RemoveElement
  <2>7. /\ Cardinality(rest) \in Nat /\ Cardinality(above) \in Nat
        /\ Cardinality(Kept(all)) \in Nat
    BY <1>2, <2>4, <2>5, FS_CardinalityType
  <2> QED BY <1>2, <2>2, <2>5, <2>6, <2>7, TrackerAssumption
<1> QED BY <1>3, <1>4

-----------------------------------------------------------------------------
\* The empty tracker satisfies the invariant.
LEMMA TrackerInitial == TrackerInit => TrackerInv
<1> SUFFICES ASSUME TrackerInit PROVE TrackerInv
  OBVIOUS
<1>1. EverRecorded = {} /\ DOMAIN records = {}
  BY DEF TrackerInit, EverRecorded
<1>2. IsFiniteSet({}) /\ Cardinality({}) = 0
  BY FS_EmptySet
<1> QED BY <1>1, <1>2, TrackerAssumption
        DEF TrackerInit, TrackerInv, TrackerShape, RecordedOnce, WindowIsNewest,
            LatestCovers, WindowBounded

\* A report that passes the guards is of a height that was never recorded.
LEMMA AcceptedIsNew ==
  ASSUME TrackerInv, NEW h \in Heights, NotRecorded(h), AboveFloor(h)
  PROVE  h \notin EverRecorded /\ h > superseded_floor
BY TrackerAssumption DEF TrackerInv, WindowIsNewest, NotRecorded, AboveFloor

\* The step that records a height and prunes the window.
LEMMA RecordKeeps ==
  ASSUME TrackerInv, NEW h \in Heights, NEW hash \in Hashes,
         NotRecorded(h), AboveFloor(h), Record(h, hash)
  PROVE  TrackerInv' /\ latest_finalized' >= latest_finalized
<1> DEFINE all == DOMAIN records \cup {h}
           kept == Kept(all)
           gone == {superseded_floor} \cup (all \ kept)
<1> USE DEF TrackerInv, TrackerShape
<1>1. h \notin EverRecorded /\ h > superseded_floor /\ h \in Nat /\ h > 0
  BY AcceptedIsNew, TrackerAssumption
<1>2. /\ EverRecorded \subseteq Nat /\ EverRecorded' = EverRecorded \cup {h}
      /\ DOMAIN records' = kept
  <2>1. EverRecorded \subseteq Heights
    BY DEF EverRecorded
  <2>2. EverRecorded' = EverRecorded \cup {h}
    <3>1. ever' = ever \cup {<<h, hash>>} /\ <<h, hash>>[1] = h
      BY DEF Record
    <3> QED BY <3>1, Zenon DEF EverRecorded
  <2> QED BY <2>1, <2>2, TrackerAssumption DEF Record
<1>3. all \in SUBSET Nat /\ IsFiniteSet(all) /\ kept \subseteq all
  BY <1>1, <1>2, FS_AddElement DEF Kept
<1>4. IsFiniteSet(gone) /\ gone \in SUBSET Nat /\ gone # {}
  <2>1. IsFiniteSet(all \ kept)
    <3>1. all \ kept \subseteq all
      OBVIOUS
    <3> QED BY <1>3, <3>1, FS_Subset
  <2>2. gone = (all \ kept) \cup {superseded_floor}
    OBVIOUS
  <2>3. IsFiniteSet((all \ kept) \cup {superseded_floor})
    BY <2>1, FS_AddElement
  <2> QED BY <1>3, <2>2, <2>3
<1>5. /\ superseded_floor' = Max(gone)
      /\ superseded_floor' \in gone /\ \A x \in gone : x <= superseded_floor'
  BY <1>4, MaxIsGreatest DEF Record
<1>6. superseded_floor' \in Nat
  BY <1>4, <1>5
<1>7. /\ latest_finalized' \in {latest_finalized, h}
      /\ latest_finalized <= latest_finalized' /\ h <= latest_finalized'
  BY <1>1, MaxOfTwo DEF Record, Latest
<1>8. TrackerShape'
  <2>1. IsFiniteSet(ever') /\ ever' \subseteq Heights \X Hashes
    <3>1. ever' = ever \cup {<<h, hash>>}
      BY DEF Record
    <3>2. IsFiniteSet(ever')
      BY <3>1, FS_AddElement
    <3> QED BY <3>1, <3>2
  <2>2. IsFiniteSet(DOMAIN records')
    BY <1>2, <1>3, FS_Subset
  <2>3. DOMAIN records' \subseteq EverRecorded'
    BY <1>2, <1>3
  <2>4. total_finalized' \in Nat
    BY DEF Record
  <2> QED BY <1>1, <1>6, <1>7, <2>1, <2>2, <2>3, <2>4
<1>9. RecordedOnce'
  <2>1. ever' = ever \cup {<<h, hash>>} /\ <<h, hash>> \notin ever
    BY <1>1 DEF Record, EverRecorded
  <2>2. Cardinality(ever') = Cardinality(ever) + 1
    BY <2>1, FS_AddElement
  <2>3. total_finalized' = Cardinality(ever')
    BY <2>2 DEF RecordedOnce, Record
  <2>4. \A p, q \in ever' : p[1] = q[1] => p = q
    <3>1. \A p \in ever : p[1] # h
      BY <1>1 DEF EverRecorded
    <3> QED BY <2>1, <3>1 DEF RecordedOnce
  <2> QED BY <2>3, <2>4 DEF RecordedOnce
<1>10. WindowIsNewest'
  <2>1. \A g \in all : g > superseded_floor
    BY <1>1 DEF WindowIsNewest
  <2>2. ASSUME NEW g \in kept PROVE g > superseded_floor'
    <3>1. g > superseded_floor /\ g \in Nat
      BY <1>3, <2>1
    <3>2. CASE superseded_floor' = superseded_floor
      BY <3>1, <3>2
    <3>3. CASE superseded_floor' \in all \ kept
      <4>1. ~(superseded_floor' > g)
        BY <1>3, <3>3, KeptUpward
      <4> QED BY <1>6, <3>1, <3>3, <4>1
    <3> QED BY <1>5, <3>2, <3>3
  <2>3. ASSUME NEW g \in EverRecorded', g \notin kept PROVE g <= superseded_floor'
    <3>1. CASE g \in all
      BY <1>5, <2>3, <3>1
    <3>2. CASE g \notin all
      <4>1. g \in EverRecorded /\ g \notin DOMAIN records /\ g \in Nat
        BY <1>2, <3>2
      <4>2. g <= superseded_floor /\ superseded_floor <= superseded_floor'
        BY <1>5, <4>1 DEF WindowIsNewest
      <4> QED BY <1>6, <4>1, <4>2
    <3> QED BY <3>1, <3>2
  <2>4. superseded_floor' \in EverRecorded' \cup {0}
    BY <1>2, <1>5 DEF WindowIsNewest
  <2>5. \A g \in EverRecorded' : g \in Nat
    BY <1>1, <1>2
  <2> HIDE DEF kept, all
  <2> QED BY <1>2, <1>6, <2>2, <2>3, <2>4, <2>5 DEF WindowIsNewest
<1>11. LatestCovers'
  BY <1>1, <1>2, <1>7 DEF LatestCovers
<1>12. WindowBounded'
  BY <1>2, <1>3, KeptBounded DEF WindowBounded
<1> QED BY <1>7, <1>8, <1>9, <1>10, <1>11, <1>12

\* Every call of the tracker keeps the invariant and never lowers latest_finalized.
LEMMA TrackerStep ==
  TrackerInv /\ [TrackerNext]_trackerVars
    => TrackerInv' /\ latest_finalized' >= latest_finalized
<1> SUFFICES ASSUME TrackerInv, [TrackerNext]_trackerVars
             PROVE  TrackerInv' /\ latest_finalized' >= latest_finalized
  OBVIOUS
<1>1. ASSUME UNCHANGED <<records, latest_finalized, total_finalized,
                         superseded_floor, ever>>
      PROVE  TrackerInv' /\ latest_finalized' >= latest_finalized
  BY <1>1 DEF TrackerInv, TrackerShape, RecordedOnce, WindowIsNewest,
              LatestCovers, WindowBounded, EverRecorded
<1>2. CASE UNCHANGED trackerVars
  BY <1>1, <1>2 DEF trackerVars
<1>3. CASE TrackerNext
  <2>1. PICK h \in Heights :
          \/ ObserveProposal(h)
          \/ \E hash \in Hashes, signers, active \in SUBSET Signers :
               OnBlockFinalized(h, hash, signers, active, Cardinality(signers),
                                Cardinality(active))
    BY <1>3 DEF TrackerNext
  <2>2. CASE ObserveProposal(h)
    BY <1>1, <2>2 DEF ObserveProposal
  <2>3. CASE \E hash \in Hashes, signers, active \in SUBSET Signers :
               OnBlockFinalized(h, hash, signers, active, Cardinality(signers),
                                Cardinality(active))
    <3>1. \/ UNCHANGED trackerVars
          \/ \E hash \in Hashes : NotRecorded(h) /\ AboveFloor(h) /\ Record(h, hash)
      BY <2>3 DEF OnBlockFinalized, Accepts
    <3> QED BY <1>2, <3>1, RecordKeeps
  <2> QED BY <2>1, <2>2, <2>3
<1> QED BY <1>2, <1>3

\* The window of records, its watermark and its counters are consistent in
\* every reachable state of the tracker, for every max_records.
THEOREM TrackerInvariant == TrackerSpec => []TrackerInv
<1>1. TrackerInv /\ [TrackerNext]_trackerVars => TrackerInv'
  BY TrackerStep
<1> QED BY <1>1, TrackerInitial, PTL DEF TrackerSpec

\* A height is recorded once in the life of the tracker, with one hash, and
\* counted once, however reports, replays and pruning interleave
\* (on_block_finalized_with_active).
THEOREM RecordedOnceHolds == TrackerSpec => []RecordedOnce
<1>1. TrackerInv => RecordedOnce
  BY DEF TrackerInv
<1> QED BY <1>1, TrackerInvariant, PTL

\* The window holds exactly the recorded heights above superseded_floor.
THEOREM WindowIsNewestHolds == TrackerSpec => []WindowIsNewest
<1>1. TrackerInv => WindowIsNewest
  BY DEF TrackerInv
<1> QED BY <1>1, TrackerInvariant, PTL

\* What finality_status reports as finalized stays finalized, pruned or not,
\* and latest_finalized never falls.
THEOREM FinalityIsStableHolds == TrackerSpec => FinalityIsStable
<1>1. TrackerInv /\ [TrackerNext]_trackerVars =>
        [\A h \in Heights : Status(h) = "finalized" =>
           (Status(h)' = "finalized" /\ latest_finalized' >= latest_finalized)]_trackerVars
  <2> SUFFICES ASSUME TrackerInv, [TrackerNext]_trackerVars,
                      NEW h \in Heights, Status(h) = "finalized"
               PROVE  Status(h)' = "finalized" /\ latest_finalized' >= latest_finalized
    OBVIOUS
  <2>1. TrackerInv' /\ latest_finalized' >= latest_finalized
    BY TrackerStep
  <2>2. h \in Nat /\ h > 0 /\ h <= latest_finalized
    BY TrackerAssumption
       DEF Status, TrackerInv, TrackerShape, LatestCovers
  <2>3. h <= latest_finalized'
    BY <2>1, <2>2 DEF TrackerInv, TrackerShape
  <2> QED BY <2>1, <2>2, <2>3 DEF Status
<1> QED BY <1>1, TrackerInvariant, PTL DEF TrackerSpec, FinalityIsStable

-----------------------------------------------------------------------------
(* on_block_committed: the shape of its state.                             *)

SetType(vs) ==
  /\ DOMAIN vs \subseteq Ids /\ IsFiniteSet(DOMAIN vs)
  /\ vs \in [DOMAIN vs -> [stake : Nat, jailed : BOOLEAN]]

SetsInv == SetType(validators) /\ SetType(snapshot)

IsChange(c) ==
  /\ DOMAIN c = {"kind", "tag", "id", "stake", "due", "pos"}
  /\ c.kind \in Kinds /\ c.id \in Ids /\ c.stake \in Nat

\* Every change is in one place, and the tags of the changes that are not
\* settled are distinct.
ChangesInv ==
  /\ tags \in Nat /\ DOMAIN work = DOMAIN NoWork
  /\ IsFiniteSet(pending) /\ IsFiniteSet(work.todo)
  /\ \A c \in Changes : IsChange(c) /\ c.tag \in 1..tags /\ c.tag \notin DOMAIN result
  /\ \A c, d \in Changes : c.tag = d.tag => c = d
  /\ work.todo \cap pending = {}
  /\ {c.tag : c \in Changes} \cup DOMAIN result = 1..tags

\* Where on_block_committed is, and what the block it works on is.
BlockInv ==
  /\ DOMAIN block = DOMAIN NoBlock
  /\ block.step \in {"none", "boundary", "transition", "finality"}
  /\ stage \in Kinds \cup {"idle"} /\ (stage = "idle") = (block.step # "transition")
  /\ stage = "idle" => work.todo = {}
  /\ height \in Nat \ {0} /\ committed_at \subseteq 1..(height - 1)
  /\ block.step # "none" =>
       /\ block.number = height - 1 /\ block.number \in Nat \ {0}
       /\ SetType(block.set)
  /\ block.step \in {"boundary", "transition"} => IsEpochBoundary(block.number)
  /\ (block.step = "boundary" \/ (block.step = "finality" /\ ~IsEpochBoundary(block.number)))
       => validators = block.set

\* The validators that joined or left since the block was decided.
Moved == (DOMAIN block.set \ DOMAIN validators) \cup (DOMAIN validators \ DOMAIN block.set)

FloorKept ==
  \/ ActiveCount(validators) >= MIN_VALIDATORS
  \/ ActiveCount(validators) >= ActiveCount(block.set)

\* The transition counts every member it moves.
InLimits ==
  /\ work.changes \in Nat /\ work.maxChurn = MaxChurn(ActiveCount(block.set))
  /\ IsFiniteSet(Moved) /\ Cardinality(Moved) <= work.changes
  /\ work.changes <= work.maxChurn
  /\ FloorKept

LimitsInv ==
  /\ block.step = "transition" => InLimits
  /\ AfterTransition =>
       /\ Cardinality(Moved) <= MaxChurn(ActiveCount(block.set))
       /\ FloorKept

\* Nothing above the last block is recorded, and the block at hand is not yet.
Recorded == IF block.step = "none" THEN height - 1 ELSE height - 2

WindowInv ==
  /\ DOMAIN records \subseteq 1..Recorded
  /\ superseded_floor \in 0..Recorded /\ latest_finalized \in 0..Recorded

PipelineInv == SetsInv /\ ChangesInv /\ BlockInv /\ LimitsInv /\ WindowInv

-----------------------------------------------------------------------------
\* Validator sets.
LEMMA ActiveCountType ==
  ASSUME NEW vs, SetType(vs)
  PROVE  IsFiniteSet(ActiveIds(vs)) /\ ActiveCount(vs) \in Nat
<1>1. ActiveIds(vs) \subseteq DOMAIN vs
  BY DEF ActiveIds
<1> QED BY <1>1, FS_Subset, FS_CardinalityType DEF SetType, ActiveCount

\* The genesis set is a validator set.
LEMMA GenesisType ==
  SetType([v \in DOMAIN Genesis |-> [stake |-> Genesis[v], jailed |-> FALSE]])
<1>1. \A v \in DOMAIN Genesis : Genesis[v] \in Nat
  BY GenesisAssumption
<1> QED BY <1>1, GenesisAssumption DEF SetType

\* A third of the validators, rounded up, bounds the churn.
LEMMA MaxChurnBound ==
  ASSUME NEW n \in Nat
  PROVE  MaxChurn(n) \in Nat /\ MaxChurn(n) >= 1
         /\ (MaxChurn(n) = 1 \/ MaxChurn(n) <= (n + 2) \div 3)
<1> DEFINE k == (n + 2) \div 3
           c == (33 * n + 99) \div 100
<1>1. k \in Nat /\ 3 * k >= n
  OBVIOUS
<1>2. c \in Nat /\ 100 * c <= 33 * n + 99
  OBVIOUS
<1>3. c <= k
  BY <1>1, <1>2
<1> QED BY <1>1, <1>2, <1>3 DEF MaxChurn

-----------------------------------------------------------------------------
\* What one step of the transition does to the changes: one of them is settled, ...
LEMMA SettleKeeps ==
  ASSUME ChangesInv, NEW c \in work.todo, NEW outcome, Settle(c, outcome),
         work'.todo = work.todo \ {c}, DOMAIN work' = DOMAIN work,
         pending' = pending, tags' = tags
  PROVE  ChangesInv'
<1>1. DOMAIN result' = DOMAIN result \cup {c.tag}
  BY DEF Settle
<1>2. Changes' = Changes \ {c} /\ c \in Changes
  BY DEF Changes, ChangesInv
<1>3. IsFiniteSet(work'.todo)
  BY FS_RemoveElement, FS_Subset DEF ChangesInv
<1>4. \A d \in Changes' : /\ IsChange(d) /\ d.tag \in 1..tags' /\ d.tag \notin DOMAIN result'
                          /\ d \in Changes
  BY <1>1, <1>2 DEF ChangesInv
<1>5. {d.tag : d \in Changes'} \cup DOMAIN result' = 1..tags'
  <2>1. {d.tag : d \in Changes} = {d.tag : d \in Changes'} \cup {c.tag}
    BY <1>2
  <2> QED BY <1>1, <2>1 DEF ChangesInv
<1>6. \A d, e \in Changes' : d.tag = e.tag => d = e
  BY <1>4 DEF ChangesInv
<1>7. work'.todo \cap pending' = {} /\ IsFiniteSet(pending') /\ tags' \in Nat
      /\ DOMAIN work' = DOMAIN NoWork
  BY DEF ChangesInv
<1> QED BY <1>3, <1>4, <1>5, <1>6, <1>7 DEF ChangesInv

\* ... or goes back to its queue, ...
LEMMA RequeueKeeps ==
  ASSUME ChangesInv, NEW c \in work.todo, Requeue(c)
  PROVE  ChangesInv'
<1> DEFINE again == [c EXCEPT !.due = work.epoch + 1, !.pos = Behind(pending)]
<1>1. /\ pending' = pending \cup {again} /\ work' = [work EXCEPT !.todo = @ \ {c}]
      /\ result' = result /\ tags' = tags
  BY DEF Requeue
<1>2. DOMAIN work' = DOMAIN NoWork /\ work'.todo = work.todo \ {c}
  BY <1>1 DEF ChangesInv, NoWork
<1>3. c \in Changes /\ IsChange(c)
  BY DEF Changes, ChangesInv
<1>4. IsChange(again) /\ again.tag = c.tag
  BY <1>3 DEF IsChange
<1> HIDE DEF again
<1>5. Changes' = (Changes \ {c}) \cup {again}
  BY <1>1, <1>2 DEF Changes, ChangesInv
<1>6. \A d \in Changes \ {c} : d.tag # c.tag
  BY <1>3 DEF ChangesInv
<1>7. IsFiniteSet(work'.todo) /\ IsFiniteSet(pending')
  BY <1>1, <1>2, FS_RemoveElement, FS_AddElement DEF ChangesInv
<1>8. \A d \in Changes' : IsChange(d) /\ d.tag \in 1..tags' /\ d.tag \notin DOMAIN result'
  BY <1>1, <1>3, <1>4, <1>5 DEF ChangesInv
<1>9. \A d, e \in Changes' : d.tag = e.tag => d = e
  <2>1. \A d, e \in Changes : d.tag = e.tag => d = e
    BY DEF ChangesInv
  <2> QED BY <1>4, <1>5, <1>6, <2>1
<1>10. work'.todo \cap pending' = {}
  <2>1. again \notin work'.todo
    BY <1>2, <1>4, <1>6 DEF Changes
  <2> QED BY <1>1, <1>2, <2>1 DEF ChangesInv
<1>11. {d.tag : d \in Changes'} \cup DOMAIN result' = 1..tags'
  <2>1. {d.tag : d \in Changes'} = {d.tag : d \in Changes}
    BY <1>3, <1>4, <1>5
  <2> QED BY <1>1, <2>1 DEF ChangesInv
<1> QED BY <1>1, <1>2, <1>7, <1>8, <1>9, <1>10, <1>11 DEF ChangesInv

\* ... and a loop that starts takes what is due out of the queue.
LEMMA EnterStageKeeps ==
  ASSUME ChangesInv, work.todo = {}, NEW s, NEW w, DOMAIN w = DOMAIN NoWork,
         EnterStage(s, w)
  PROVE  /\ ChangesInv' /\ stage' = s /\ validators' = validators
         /\ work' = [w EXCEPT !.todo = Due(s, w)]
<1>1. /\ stage' = s /\ pending' = pending \ Due(s, w) /\ work' = [w EXCEPT !.todo = Due(s, w)]
      /\ UNCHANGED <<validators, result, tags>>
  BY DEF EnterStage
<1>2. DOMAIN work' = DOMAIN NoWork /\ work'.todo = Due(s, w)
  BY <1>1 DEF NoWork
<1>3. Due(s, w) \subseteq pending
  BY DEF Due
<1>4. Changes' = Changes
  BY <1>1, <1>2, <1>3 DEF Changes
<1>5. IsFiniteSet(work'.todo) /\ IsFiniteSet(pending')
  <2>1. pending' \subseteq pending
    BY <1>1
  <2> QED BY <1>2, <1>3, <2>1, FS_Subset DEF ChangesInv
<1>6. work'.todo \cap pending' = {}
  BY <1>1, <1>2
<1> QED BY <1>1, <1>2, <1>4, <1>5, <1>6 DEF ChangesInv

\* queue_change gives a change a tag of its own.
LEMMA QueueKeeps ==
  ASSUME ChangesInv, work.todo = {}, NEW r \in Requests, NEW e,
         QueueChange(r.kind, r.id, r.stake, e)
  PROVE  ChangesInv' /\ UNCHANGED <<validators, stage, work>>
<1> DEFINE new == [kind |-> r.kind, tag |-> tags + 1, id |-> r.id, stake |-> r.stake,
                   due |-> e + Delay(r.kind), pos |-> Behind(pending)]
<1>1. /\ pending' = pending \cup {new} /\ tags' = tags + 1
      /\ UNCHANGED <<validators, result, stage, work>>
  BY DEF QueueChange
<1>2. IsChange(new) /\ new.tag = tags + 1
  BY PipelineAssumption DEF IsChange
<1> HIDE DEF new
<1>3. Changes' = Changes \cup {new}
  BY <1>1 DEF Changes
<1>4. tags \in Nat /\ 1..tags' = (1..tags) \cup {tags + 1} /\ tags + 1 \notin 1..tags
  BY <1>1 DEF ChangesInv
<1>5. \A d \in Changes : d.tag # tags + 1
  BY <1>4 DEF ChangesInv
<1>6. tags + 1 \notin DOMAIN result
  BY <1>4 DEF ChangesInv
<1>7. IsFiniteSet(pending') /\ IsFiniteSet(work'.todo) /\ work'.todo \cap pending' = {}
  BY <1>1, FS_AddElement DEF ChangesInv
<1>8. \A d \in Changes' : IsChange(d) /\ d.tag \in 1..tags' /\ d.tag \notin DOMAIN result'
  BY <1>1, <1>2, <1>3, <1>4, <1>6 DEF ChangesInv
<1>9. \A c, d \in Changes' : c.tag = d.tag => c = d
  <2>1. \A c, d \in Changes : c.tag = d.tag => c = d
    BY DEF ChangesInv
  <2> QED BY <1>2, <1>3, <1>5, <2>1
<1>10. {d.tag : d \in Changes'} \cup DOMAIN result' = 1..tags'
  <2>1. {d.tag : d \in Changes'} = {d.tag : d \in Changes} \cup {tags + 1}
    BY <1>2, <1>3
  <2> QED BY <1>1, <1>4, <2>1 DEF ChangesInv
<1> QED BY <1>1, <1>4, <1>7, <1>8, <1>9, <1>10 DEF ChangesInv

-----------------------------------------------------------------------------
\* What the three kinds of changes do to the validator set.
LEMMA MovedByOne ==
  ASSUME IsFiniteSet(Moved), NEW x, Moved' \subseteq Moved \cup {x}
  PROVE  IsFiniteSet(Moved') /\ Cardinality(Moved') <= Cardinality(Moved) + 1
<1>1. /\ IsFiniteSet(Moved \cup {x})
      /\ Cardinality(Moved \cup {x}) = IF x \in Moved THEN Cardinality(Moved)
                                       ELSE Cardinality(Moved) + 1
  BY FS_AddElement
<1>2. IsFiniteSet(Moved') /\ Cardinality(Moved') <= Cardinality(Moved \cup {x})
  BY <1>1, FS_Subset
<1>3. Cardinality(Moved) \in Nat /\ Cardinality(Moved') \in Nat
  BY <1>2, FS_CardinalityType
<1> QED BY <1>1, <1>2, <1>3

\* What a stake update does to a validator set.
LEMMA UpdatedSet ==
  ASSUME NEW vs, SetType(vs), NEW ws, NEW v \in DOMAIN vs, NEW stake \in Nat,
         ws = [vs EXCEPT ![v].stake = stake]
  PROVE  /\ SetType(ws) /\ DOMAIN ws = DOMAIN vs
         /\ ActiveIds(ws) = ActiveIds(vs)
<1>1. DOMAIN ws = DOMAIN vs
  OBVIOUS
<1>2. ASSUME NEW u \in DOMAIN vs
      PROVE  /\ ws[u] \in [stake : Nat, jailed : BOOLEAN]
             /\ ws[u].jailed = vs[u].jailed
  <2>1. vs[u] \in [stake : Nat, jailed : BOOLEAN]
    BY DEF SetType
  <2>2. CASE u = v
    <3>1. ws[u] = [vs[u] EXCEPT !.stake = stake]
      BY <2>2
    <3> QED BY <2>1, <3>1
  <2>3. CASE u # v
    BY <2>1, <2>3
  <2> QED BY <2>2, <2>3
<1>3. ws \in [DOMAIN ws -> [stake : Nat, jailed : BOOLEAN]]
  BY <1>1, <1>2
<1> QED BY <1>1, <1>2, <1>3 DEF SetType, ActiveIds

\* What a join does to a validator set.
LEMMA JoinedSet ==
  ASSUME NEW vs, SetType(vs), NEW ws, NEW v \in Ids, v \notin DOMAIN vs, NEW stake \in Nat,
         ws = [u \in DOMAIN vs \cup {v} |->
                          IF u = v THEN [stake |-> stake, jailed |-> FALSE]
                          ELSE vs[u]]
  PROVE  /\ SetType(ws) /\ DOMAIN ws = DOMAIN vs \cup {v}
         /\ ActiveCount(ws) = ActiveCount(vs) + 1
<1>1. DOMAIN ws = DOMAIN vs \cup {v}
  OBVIOUS
<1>2. ws \in [DOMAIN ws -> [stake : Nat, jailed : BOOLEAN]]
  BY <1>1 DEF SetType
<1>3. SetType(ws)
  BY <1>1, <1>2, FS_AddElement DEF SetType
<1>4. ActiveIds(ws) = ActiveIds(vs) \cup {v}
  BY <1>1 DEF ActiveIds
<1>5. v \notin ActiveIds(vs)
  BY DEF ActiveIds
<1> QED BY <1>1, <1>3, <1>4, <1>5, ActiveCountType, FS_AddElement DEF ActiveCount

\* What a leave does to a validator set.
LEMMA LeftSet ==
  ASSUME NEW vs, SetType(vs), NEW ws, NEW v \in DOMAIN vs,
         ws = [u \in DOMAIN vs \ {v} |-> vs[u]]
  PROVE  /\ SetType(ws) /\ DOMAIN ws = DOMAIN vs \ {v}
         /\ ActiveCount(ws) >= ActiveCount(vs) - 1
<1>1. DOMAIN ws = DOMAIN vs \ {v}
  OBVIOUS
<1>2. ws \in [DOMAIN ws -> [stake : Nat, jailed : BOOLEAN]]
  BY <1>1 DEF SetType
<1>3. SetType(ws)
  BY <1>1, <1>2, FS_RemoveElement DEF SetType
<1>4. ActiveIds(ws) = ActiveIds(vs) \ {v}
  BY <1>1 DEF ActiveIds
<1>5. IsFiniteSet(ActiveIds(vs)) /\ ActiveCount(vs) \in Nat
  BY ActiveCountType
<1>6. CASE v \in ActiveIds(vs)
  <2>1. Cardinality(ActiveIds(vs) \ {v}) = Cardinality(ActiveIds(vs)) - 1
    BY <1>5, <1>6, FS_RemoveElement
  <2>2. ActiveCount(ws) = ActiveCount(vs) - 1
    BY <1>4, <2>1 DEF ActiveCount
  <2> QED BY <1>1, <1>3, <1>5, <2>2
<1>7. CASE v \notin ActiveIds(vs)
  <2>1. ActiveIds(ws) = ActiveIds(vs)
    BY <1>4, <1>7
  <2> QED BY <1>1, <1>3, <1>5, <2>1 DEF ActiveCount
<1> QED BY <1>6, <1>7

\* One change of a loop: the limits are taken before it is admitted.
LEMMA ApplyKeeps ==
  ASSUME SetsInv, ChangesInv, InLimits, SetType(block.set), NEW c \in work.todo,
         ApplyStakeUpdate(c) \/ ApplyJoin(c) \/ ApplyLeave(c),
         block'.set = block.set
  PROVE  ChangesInv' /\ SetType(validators') /\ InLimits' /\ stage' = stage /\ stage # "idle"
<1>1. /\ IsChange(c) /\ DOMAIN work = DOMAIN NoWork /\ SetType(validators)
      /\ ActiveCount(validators) \in Nat /\ ActiveCount(block.set) \in Nat
      /\ MaxChurn(ActiveCount(block.set)) \in Nat
  BY ActiveCountType, MaxChurnBound DEF ChangesInv, Changes, SetsInv
<1>2. CASE Reject(c)
  <2>1. /\ Settle(c, "rejected") /\ work' = [work EXCEPT !.todo = @ \ {c}]
        /\ UNCHANGED <<validators, pending, tags, stage>>
    BY <1>2 DEF Reject
  <2>2. /\ work'.todo = work.todo \ {c} /\ DOMAIN work' = DOMAIN work
        /\ work'.changes = work.changes /\ work'.maxChurn = work.maxChurn
    BY <1>1, <2>1 DEF NoWork
  <2>3. ChangesInv'
    BY <2>1, <2>2, SettleKeeps
  <2>4. InLimits'
    BY <2>1, <2>2 DEF InLimits, Moved, FloorKept
  <2>5. stage # "idle"
    BY DEF ApplyStakeUpdate, ApplyJoin, ApplyLeave
  <2> QED BY <1>1, <2>1, <2>3, <2>4, <2>5
<1>3. CASE Requeue(c)
  <2>1. /\ work' = [work EXCEPT !.todo = @ \ {c}]
        /\ UNCHANGED <<validators, tags, stage>>
    BY <1>3 DEF Requeue
  <2>2. work'.changes = work.changes /\ work'.maxChurn = work.maxChurn
    BY <1>1, <2>1 DEF NoWork
  <2>3. ChangesInv'
    BY <1>3, RequeueKeeps
  <2>4. InLimits'
    BY <2>1, <2>2 DEF InLimits, Moved, FloorKept
  <2>5. stage # "idle"
    BY DEF ApplyStakeUpdate, ApplyJoin, ApplyLeave
  <2> QED BY <1>1, <2>1, <2>3, <2>4, <2>5
<1>4. ASSUME NEW vs, NEW changes, NEW churn, Apply(c, vs, changes, churn)
      PROVE  /\ validators' = vs /\ stage' = stage /\ ChangesInv'
             /\ work'.changes = work.changes + changes /\ work'.maxChurn = work.maxChurn
  <2>1. /\ validators' = vs /\ Settle(c, "applied")
        /\ work' = [work EXCEPT !.todo = @ \ {c}, !.changes = @ + changes,
                                !.churned = @ + churn]
        /\ UNCHANGED <<pending, tags, stage>>
    BY <1>4 DEF Apply
  <2>2. /\ work'.todo = work.todo \ {c} /\ DOMAIN work' = DOMAIN work
        /\ work'.changes = work.changes + changes /\ work'.maxChurn = work.maxChurn
    BY <1>1, <2>1 DEF NoWork
  <2> QED BY <2>1, <2>2, SettleKeeps
<1>5. CASE /\ stage = "update" /\ c.id \in Member(validators)
           /\ \E churn : Apply(c, [validators EXCEPT ![c.id].stake = c.stake], 0, churn)
  <2>1. /\ validators' = [validators EXCEPT ![c.id].stake = c.stake]
        /\ stage' = stage /\ ChangesInv'
        /\ work'.changes = work.changes + 0 /\ work'.maxChurn = work.maxChurn
    BY <1>4, <1>5
  <2>2. /\ SetType(validators') /\ DOMAIN validators' = DOMAIN validators
        /\ ActiveIds(validators') = ActiveIds(validators)
    BY <1>1, <1>5, <2>1, UpdatedSet DEF Member, IsChange
  <2>3. InLimits'
    BY <2>1, <2>2 DEF InLimits, Moved, FloorKept, ActiveCount
  <2> QED BY <1>5, <2>1, <2>2, <2>3
<1>6. CASE /\ stage = "join" /\ c.id \notin Member(validators)
           /\ ~(work.changes >= work.maxChurn)
           /\ Apply(c, [v \in DOMAIN validators \cup {c.id} |->
                          IF v = c.id THEN [stake |-> c.stake, jailed |-> FALSE]
                          ELSE validators[v]], 1, c.stake)
  <2>1. /\ validators' = [v \in DOMAIN validators \cup {c.id} |->
                            IF v = c.id THEN [stake |-> c.stake, jailed |-> FALSE]
                            ELSE validators[v]]
        /\ stage' = stage /\ ChangesInv'
        /\ work'.changes = work.changes + 1 /\ work'.maxChurn = work.maxChurn
    BY <1>4, <1>6
  <2>2. /\ SetType(validators') /\ DOMAIN validators' = DOMAIN validators \cup {c.id}
        /\ ActiveCount(validators') = ActiveCount(validators) + 1
    BY <1>1, <1>6, <2>1, JoinedSet DEF Member, IsChange
  <2>3. IsFiniteSet(Moved') /\ Cardinality(Moved') <= Cardinality(Moved) + 1
    <3>1. Moved' \subseteq Moved \cup {c.id} /\ IsFiniteSet(Moved)
      BY <2>2 DEF Moved, InLimits
    <3> QED BY <3>1, MovedByOne
  <2>4. Cardinality(Moved') \in Nat /\ Cardinality(Moved) \in Nat
    BY <2>3, FS_CardinalityType DEF InLimits
  <2>5. FloorKept'
    BY <1>1, <2>2, LimitsAssumption DEF InLimits, FloorKept
  <2>6. /\ work'.changes \in Nat /\ work'.changes <= work'.maxChurn
        /\ Cardinality(Moved') <= work'.changes
    BY <1>1, <1>6, <2>1, <2>3, <2>4 DEF InLimits
  <2>7. InLimits'
    BY <2>1, <2>3, <2>5, <2>6 DEF InLimits
  <2> QED BY <1>6, <2>1, <2>2, <2>7
<1>7. CASE /\ stage = "leave" /\ c.id \in Member(validators) /\ ~AtFloor(validators)
           /\ ~(work.changes >= work.maxChurn)
           /\ \E churn : Apply(c, [v \in DOMAIN validators \ {c.id} |-> validators[v]], 1, churn)
  <2>1. /\ validators' = [v \in DOMAIN validators \ {c.id} |-> validators[v]]
        /\ stage' = stage /\ ChangesInv'
        /\ work'.changes = work.changes + 1 /\ work'.maxChurn = work.maxChurn
    BY <1>4, <1>7
  <2>2. /\ SetType(validators') /\ DOMAIN validators' = DOMAIN validators \ {c.id}
        /\ ActiveCount(validators') >= ActiveCount(validators) - 1
    BY <1>1, <1>7, <2>1, LeftSet DEF Member
  <2>3. IsFiniteSet(Moved') /\ Cardinality(Moved') <= Cardinality(Moved) + 1
    <3>1. Moved' \subseteq Moved \cup {c.id} /\ IsFiniteSet(Moved)
      BY <2>2 DEF Moved, InLimits
    <3> QED BY <3>1, MovedByOne
  <2>4. Cardinality(Moved') \in Nat /\ Cardinality(Moved) \in Nat
    BY <2>3, FS_CardinalityType DEF InLimits
  <2>5. FloorKept'
    <3>1. ActiveCount(validators') \in Nat
      BY <2>2, ActiveCountType
    <3>2. ActiveCount(validators) > MIN_VALIDATORS
      BY <1>1, <1>7, LimitsAssumption DEF AtFloor
    <3> QED BY <1>1, <2>2, <3>1, <3>2, LimitsAssumption DEF FloorKept
  <2>6. /\ work'.changes \in Nat /\ work'.changes <= work'.maxChurn
        /\ Cardinality(Moved') <= work'.changes
    BY <1>1, <1>7, <2>1, <2>3, <2>4 DEF InLimits
  <2>7. InLimits'
    BY <2>1, <2>3, <2>5, <2>6 DEF InLimits
  <2> QED BY <1>7, <2>1, <2>2, <2>7
<1>8. CASE ApplyStakeUpdate(c)
  BY <1>2, <1>3, <1>5, <1>8 DEF ApplyStakeUpdate
<1>9. CASE ApplyJoin(c)
  BY <1>2, <1>3, <1>6, <1>9 DEF ApplyJoin
<1>10. CASE ApplyLeave(c)
  BY <1>2, <1>3, <1>7, <1>10 DEF ApplyLeave
<1> QED BY <1>8, <1>9, <1>10

-----------------------------------------------------------------------------
\* The steps of on_block_committed, one by one.
LEMMA PipelineInitial == Init => PipelineInv
<1> SUFFICES ASSUME Init PROVE PipelineInv
  OBVIOUS
<1> USE DEF Init, EpochInit, TrackerInit
<1>1. SetsInv
  BY GenesisType DEF SetsInv
<1>2. ChangesInv
  <2>1. work.todo = {} /\ Changes = {} /\ DOMAIN result = {} /\ 1..tags = {}
    BY DEF Changes, NoWork
  <2> QED BY <2>1, FS_EmptySet DEF ChangesInv
<1>3. BlockInv
  BY DEF BlockInv, NoBlock, NoWork
<1>4. LimitsInv /\ WindowInv
  BY DEF LimitsInv, WindowInv, AfterTransition, Recorded, NoBlock
<1> QED BY <1>1, <1>2, <1>3, <1>4 DEF PipelineInv

\* One lemma per step of on_block_committed.
LEMMA OnBlockCommittedKeeps ==
  ASSUME PipelineInv, NEW signers, NEW hasChange, NEW change,
         hasChange => change \in Requests,
         OnBlockCommitted(signers, hasChange, change)
  PROVE  PipelineInv'
<1>1. /\ block.step = "none" /\ height' = height + 1
      /\ committed_at' = committed_at \cup {height}
      /\ block' = [step |-> IF IsEpochBoundary(height) THEN "boundary" ELSE "finality",
                   number |-> height, epoch |-> epoch + 1, signers |-> signers,
                   set |-> validators]
      /\ UNCHANGED <<trackerVars, snapshot>>
  BY DEF OnBlockCommitted
<1>2. stage = "idle" /\ work.todo = {}
  BY <1>1 DEF PipelineInv, BlockInv
<1>3. ChangesInv' /\ UNCHANGED <<validators, stage, work>>
  <2>1. CASE hasChange /\ QueueChange(change.kind, change.id, change.stake, epoch + 1)
    BY <1>2, <2>1, QueueKeeps DEF PipelineInv
  <2>2. CASE UNCHANGED epochVars
    BY <2>2 DEF PipelineInv, ChangesInv, Changes, epochVars
  <2> QED BY <2>1, <2>2 DEF OnBlockCommitted
<1>4. /\ block'.step \in {"boundary", "finality"} /\ DOMAIN block' = DOMAIN NoBlock
      /\ block'.step = "boundary" <=> IsEpochBoundary(height)
      /\ block'.number = height /\ block'.signers = signers /\ block'.set = validators
  BY <1>1 DEF NoBlock
<1>5. SetsInv'
  BY <1>1, <1>3 DEF PipelineInv, SetsInv
<1>6. height \in Nat \ {0} /\ committed_at \subseteq 1..(height - 1)
  BY DEF PipelineInv, BlockInv
<1>7. BlockInv'
  <2>1. committed_at' \subseteq 1..(height' - 1) /\ height' \in Nat \ {0}
    BY <1>1, <1>6
  <2>2. height' - 1 = height
    BY <1>1, <1>6
  <2>3. IsEpochBoundary(block'.number) <=> IsEpochBoundary(height)
    BY <1>4
  <2> QED BY <1>2, <1>3, <1>4, <1>5, <1>6, <2>1, <2>2, <2>3 DEF BlockInv, SetsInv
<1>8. LimitsInv'
  BY <1>4 DEF LimitsInv, AfterTransition
<1>9. WindowInv'
  <2>1. Recorded = height - 1 /\ Recorded' = height - 1
    BY <1>1, <1>4, <1>6 DEF Recorded
  <2> QED BY <1>1, <2>1 DEF PipelineInv, WindowInv, trackerVars
<1> QED BY <1>3, <1>5, <1>7, <1>8, <1>9 DEF PipelineInv

LEMMA StartTransitionKeeps ==
  ASSUME PipelineInv, StartTransition
  PROVE  PipelineInv'
<1> DEFINE w == [NoWork EXCEPT !.epoch = block.epoch, !.enforce = enforce,
                               !.maxChurn = MaxChurn(ActiveCount(validators)),
                               !.budget = StakeBudget(validators)]
<1>1. /\ block.step = "boundary" /\ stage = "idle" /\ EnterStage("update", w)
      /\ block' = [block EXCEPT !.step = "transition"]
      /\ UNCHANGED <<trackerVars, nodeVars>>
  BY DEF StartTransition, BeginTransition
<1>2. DOMAIN w = DOMAIN NoWork /\ w.changes = 0 /\ w.maxChurn = MaxChurn(ActiveCount(validators))
  BY DEF NoWork
<1> HIDE DEF w
<1>3. work.todo = {} /\ ChangesInv /\ DOMAIN block = DOMAIN NoBlock
  BY <1>1 DEF PipelineInv, BlockInv
<1>4. /\ ChangesInv' /\ stage' = "update" /\ validators' = validators
      /\ work' = [w EXCEPT !.todo = Due("update", w)]
  BY <1>1, <1>2, <1>3, EnterStageKeeps
<1>5. work'.changes = 0 /\ work'.maxChurn = MaxChurn(ActiveCount(validators))
  BY <1>2, <1>4 DEF NoWork
<1>6. /\ DOMAIN block' = DOMAIN NoBlock /\ block'.step = "transition"
      /\ block'.number = block.number /\ block'.signers = block.signers
      /\ block'.set = block.set
  BY <1>1, <1>3 DEF NoBlock
<1>7. SetsInv' /\ validators = block.set /\ SetType(validators)
  BY <1>1, <1>4 DEF PipelineInv, SetsInv, BlockInv, nodeVars
<1>8. BlockInv'
  BY <1>1, <1>4, <1>6 DEF PipelineInv, BlockInv, Kinds, nodeVars, IsEpochBoundary
<1>9. LimitsInv'
  <2>1. Moved' = {} /\ Cardinality({}) = 0 /\ IsFiniteSet({})
    BY <1>4, <1>6, <1>7, FS_EmptySet DEF Moved
  <2>2. MaxChurn(ActiveCount(validators)) \in Nat /\ ActiveCount(validators) \in Nat
    BY <1>7, ActiveCountType, MaxChurnBound
  <2>3. FloorKept'
    BY <1>4, <1>6, <1>7, <2>2 DEF FloorKept
  <2>4. InLimits'
    BY <1>5, <1>6, <1>7, <2>1, <2>2, <2>3 DEF InLimits
  <2> QED BY <1>6, <2>4 DEF LimitsInv, AfterTransition
<1>10. WindowInv'
  <2>1. Recorded' = Recorded
    BY <1>1, <1>6 DEF Recorded, nodeVars
  <2> QED BY <1>1, <2>1 DEF PipelineInv, WindowInv, trackerVars
<1> QED BY <1>4, <1>7, <1>8, <1>9, <1>10 DEF PipelineInv

LEMMA RunTransitionKeeps ==
  ASSUME PipelineInv, RunTransition
  PROVE  PipelineInv'
<1>1. /\ block.step = "transition" /\ TransitionStep
      /\ block' = [block EXCEPT !.step = IF stage' = "idle" THEN "finality" ELSE @]
      /\ UNCHANGED <<trackerVars, nodeVars>>
  BY DEF RunTransition
<1>2. /\ DOMAIN block' = DOMAIN NoBlock
      /\ block'.step = IF stage' = "idle" THEN "finality" ELSE "transition"
      /\ block'.number = block.number /\ block'.signers = block.signers
      /\ block'.set = block.set
  BY <1>1 DEF PipelineInv, BlockInv, NoBlock
<1>3. /\ SetsInv /\ ChangesInv /\ InLimits /\ SetType(block.set) /\ stage \in Kinds
      /\ IsEpochBoundary(block.number)
  BY <1>1 DEF PipelineInv, BlockInv, LimitsInv
<1>4. /\ ChangesInv' /\ SetType(validators')
      /\ \/ InLimits' /\ stage' \in Kinds
         \/ /\ stage' = "idle" /\ work'.todo = {}
            /\ Cardinality(Moved') <= MaxChurn(ActiveCount(block.set)) /\ FloorKept'
  <2>1. ASSUME NEW c \in work.todo, ApplyStakeUpdate(c) \/ ApplyJoin(c) \/ ApplyLeave(c)
        PROVE  ChangesInv' /\ SetType(validators') /\ InLimits' /\ stage' \in Kinds
    BY <1>2, <1>3, <2>1, ApplyKeeps
  <2>2. ASSUME NEW s \in Kinds, work.todo = {}, EnterStage(s, work)
        PROVE  ChangesInv' /\ SetType(validators') /\ InLimits' /\ stage' \in Kinds
    <3>1. DOMAIN work = DOMAIN NoWork
      BY <1>3 DEF ChangesInv
    <3>2. /\ ChangesInv' /\ stage' = s /\ validators' = validators
          /\ work' = [work EXCEPT !.todo = Due(s, work)]
      BY <1>3, <2>2, <3>1, EnterStageKeeps
    <3>3. work'.changes = work.changes /\ work'.maxChurn = work.maxChurn
      BY <3>1, <3>2 DEF NoWork
    <3>4. InLimits'
      BY <1>2, <1>3, <3>2, <3>3 DEF InLimits, Moved, FloorKept
    <3> QED BY <1>3, <3>2, <3>4 DEF SetsInv
  <2>3. CASE NextStage
    BY <2>2, <2>3 DEF NextStage, Kinds
  <2>4. CASE EndTransition
    <3>1. /\ work.todo = {} /\ stage' = "idle" /\ work' = NoWork
          /\ UNCHANGED <<validators, pending, result, tags>>
      BY <2>4 DEF EndTransition
    <3>2. work'.todo = {} /\ Changes' = Changes
      BY <3>1 DEF NoWork, Changes
    <3>3. ChangesInv'
      BY <1>3, <3>1, <3>2, FS_EmptySet DEF ChangesInv
    <3>4. Moved' = Moved /\ FloorKept'
      BY <1>2, <1>3, <3>1 DEF Moved, FloorKept, InLimits
    <3>5. Cardinality(Moved') <= MaxChurn(ActiveCount(block.set))
      <4>1. Cardinality(Moved) \in Nat /\ MaxChurn(ActiveCount(block.set)) \in Nat
        BY <1>3, FS_CardinalityType, ActiveCountType, MaxChurnBound DEF InLimits
      <4> QED BY <1>3, <3>4, <4>1 DEF InLimits
    <3> QED BY <1>3, <3>1, <3>2, <3>3, <3>4, <3>5 DEF SetsInv
  <2> QED BY <1>1, <2>1, <2>3, <2>4 DEF TransitionStep
<1>5. SetsInv'
  BY <1>1, <1>3, <1>4 DEF SetsInv, nodeVars
<1>6. BlockInv'
  <2>1. /\ block'.step \in {"finality", "transition"}
        /\ (stage' = "idle") = (block'.step # "transition")
        /\ stage' \in Kinds \cup {"idle"} /\ (stage' = "idle" => work'.todo = {})
    BY <1>2, <1>4 DEF Kinds
  <2>2. IsEpochBoundary(block'.number)
    BY <1>2, <1>3
  <2> QED BY <1>1, <1>2, <2>1, <2>2 DEF PipelineInv, BlockInv, nodeVars
<1>7. LimitsInv'
  BY <1>2, <1>4 DEF LimitsInv, AfterTransition, Kinds
<1>8. WindowInv'
  <2>1. Recorded' = Recorded
    BY <1>1, <1>2 DEF Recorded, nodeVars
  <2> QED BY <1>1, <2>1 DEF PipelineInv, WindowInv, trackerVars
<1> QED BY <1>4, <1>5, <1>6, <1>7, <1>8 DEF PipelineInv

-----------------------------------------------------------------------------
\* A record of the newest height: everything else in the window lies below it,
\* so it is not the one that is pruned.
LEMMA RecordNewest ==
  ASSUME NEW n \in Nat \ {0}, DOMAIN records \subseteq 1..(n - 1),
         superseded_floor \in 0..(n - 1), latest_finalized \in 0..(n - 1),
         NEW hash, Record(n, hash)
  PROVE  /\ DOMAIN records' \subseteq 1..n /\ n \in DOMAIN records'
         /\ superseded_floor' \in 0..n /\ latest_finalized' \in 0..n
<1> DEFINE all == DOMAIN records \cup {n}
           gone == {superseded_floor} \cup (all \ Kept(all))
<1>1. all \subseteq 1..n /\ gone \subseteq 0..n
  OBVIOUS
<1>2. DOMAIN records' = Kept(all) /\ Kept(all) \subseteq all
  BY DEF Record, Kept
<1>3. n \in Kept(all)
  <2>1. {k \in all : k > n} = {}
    BY <1>1
  <2>2. Cardinality({k \in all : k > n}) < MaxRecords
    BY <2>1, FS_EmptySet, TrackerAssumption
  <2> QED BY <2>2 DEF Kept
<1>4. superseded_floor' \in 0..n
  <2>1. superseded_floor' = Max(gone)
    BY DEF Record
  <2>2. IsFiniteSet(gone) /\ gone \in SUBSET Nat /\ gone # {}
    <3>1. IsFiniteSet(0..n)
      BY FS_Interval
    <3> QED BY <1>1, <3>1, FS_Subset
  <2>3. Max(gone) \in gone
    BY <2>2, MaxIsGreatest
  <2> QED BY <1>1, <2>1, <2>3
<1>5. latest_finalized' \in 0..n
  <2>1. latest_finalized' \in {latest_finalized, n}
    BY MaxOfTwo DEF Record, Latest
  <2> QED BY <2>1
<1> QED BY <1>1, <1>2, <1>3, <1>4, <1>5

LEMMA FinishCommitKeeps ==
  ASSUME PipelineInv, FinishCommit
  PROVE  PipelineInv'
<1>1. /\ block.step = "finality" /\ block' = NoBlock /\ snapshot' = validators
      /\ committed_at' \subseteq committed_at
      /\ UNCHANGED <<epochVars, height>>
  BY DEF FinishCommit
<1>2. /\ block.number = height - 1 /\ block.number \in Nat \ {0} /\ height \in Nat
      /\ stage = "idle"
  BY <1>1 DEF PipelineInv, BlockInv
<1>3. block'.step = "none" /\ DOMAIN block' = DOMAIN NoBlock
  BY <1>1 DEF NoBlock
<1>4. SetsInv' /\ ChangesInv'
  BY <1>1 DEF PipelineInv, SetsInv, ChangesInv, Changes, epochVars
<1>5. BlockInv'
  BY <1>1, <1>2, <1>3 DEF PipelineInv, BlockInv, epochVars
<1>6. LimitsInv'
  BY <1>3 DEF LimitsInv, AfterTransition
<1>7. WindowInv'
  <2>1. Recorded = block.number - 1 /\ Recorded' = block.number
    BY <1>1, <1>2, <1>3 DEF Recorded
  <2>2. /\ DOMAIN records \subseteq 1..(block.number - 1)
        /\ superseded_floor \in 0..(block.number - 1)
        /\ latest_finalized \in 0..(block.number - 1)
    BY <2>1 DEF PipelineInv, WindowInv
  <2>3. UNCHANGED trackerVars \/ Record(block.number, block.number)
    BY DEF FinishCommit, OnBlockFinalized, trackerVars
  <2>4. CASE UNCHANGED trackerVars
    BY <1>2, <2>1, <2>2, <2>4 DEF WindowInv, trackerVars
  <2>5. CASE Record(block.number, block.number)
    BY <1>2, <2>1, <2>2, <2>5, RecordNewest DEF WindowInv
  <2> QED BY <2>3, <2>4, <2>5
<1> QED BY <1>4, <1>5, <1>6, <1>7 DEF PipelineInv

-----------------------------------------------------------------------------
\* Between blocks.
LEMMA IdleKeeps ==
  ASSUME PipelineInv, block.step = "none", SetsInv', ChangesInv', WindowInv',
         UNCHANGED <<block, height>>, stage' = "idle", work'.todo = {},
         committed_at' \subseteq committed_at
  PROVE  PipelineInv'
<1>1. BlockInv'
  BY DEF PipelineInv, BlockInv
<1>2. LimitsInv'
  BY DEF LimitsInv, AfterTransition
<1> QED BY <1>1, <1>2 DEF PipelineInv

\* Between two commits the invariant only asks for a well-formed validator set.
LEMMA ValidatorKeeps ==
  ASSUME PipelineInv, block.step = "none", SetType(validators'),
         UNCHANGED <<pending, result, tags, stage, work, trackerVars, height,
                     committed_at, snapshot, block>>
  PROVE  PipelineInv'
<1>1. stage = "idle" /\ work.todo = {}
  BY DEF PipelineInv, BlockInv
<1>2. SetsInv' /\ ChangesInv'
  BY DEF PipelineInv, SetsInv, ChangesInv, Changes
<1>3. WindowInv'
  BY DEF PipelineInv, WindowInv, Recorded, trackerVars
<1> QED BY <1>1, <1>2, <1>3, IdleKeeps

\* One lemma per fault.
LEMMA SlashWithAmountKeeps ==
  ASSUME PipelineInv, block.step = "none", NEW v \in DOMAIN validators, NEW rate \in Nat,
         NEW jail \in BOOLEAN,
         SlashWithAmount(v, SanovSlash(validators[v].stake, rate), jail)
  PROVE  PipelineInv'
<1> DEFINE stake == validators[v].stake
           product == (stake * rate) \div 1000
           left == stake - SanovSlash(stake, rate)
           slashed == [stake |-> left,
                       jailed |-> validators[v].jailed \/ jail \/ left < MIN_STAKE]
<1>1. /\ validators' = [validators EXCEPT ![v] = slashed]
      /\ UNCHANGED <<pending, result, tags, stage, work, trackerVars, height,
                     committed_at, snapshot, block>>
  BY DEF SlashWithAmount
<1>2. SetType(validators)
  BY DEF PipelineInv, SetsInv
<1>3. stake \in Nat
  BY <1>2 DEF SetType
<1>4. product \in Nat
  <2>1. stake * rate \in Nat
    BY <1>3
  <2> QED BY <2>1
<1>5. left \in Nat
  <2> HIDE DEF stake, product
  <2>1. {stake, product} \in SUBSET Nat
    BY <1>3, <1>4
  <2>2. Min({stake, product}) \in {stake, product} /\ Min({stake, product}) <= stake
    BY <2>1, MinIsLeast
  <2>3. SanovSlash(stake, rate) = Min({stake, product})
    BY DEF SanovSlash, product
  <2> QED BY <1>3, <1>4, <2>2, <2>3
<1> HIDE DEF left
<1>6. slashed \in [stake : Nat, jailed : BOOLEAN]
  <2>1. (validators[v].jailed \/ jail \/ left < MIN_STAKE) \in BOOLEAN
    OBVIOUS
  <2> QED BY <1>5, <2>1
<1> HIDE DEF slashed
<1>7. SetType(validators')
  BY <1>1, <1>2, <1>6 DEF SetType
<1> QED BY <1>1, <1>7, ValidatorKeeps

LEMMA SlashKeeps ==
  ASSUME PipelineInv, NEW v, SlashEquivocation(v)
  PROVE  PipelineInv'
<1>1. /\ block.step = "none" /\ v \in DOMAIN validators
      /\ SlashWithAmount(v, SanovSlash(validators[v].stake, EquivocationRate), TRUE)
  BY DEF SlashEquivocation, Fault
<1>2. EquivocationRate \in Nat /\ TRUE \in BOOLEAN
  BY PipelineAssumption
<1> QED BY <1>1, <1>2, SlashWithAmountKeeps

LEMMA SlashDowntimeKeeps ==
  ASSUME PipelineInv, NEW v, NEW rate \in DowntimeRates, NEW jail \in BOOLEAN,
         SlashDowntime(v, rate, jail)
  PROVE  PipelineInv'
<1>1. /\ block.step = "none" /\ v \in DOMAIN validators
      /\ SlashWithAmount(v, SanovSlash(validators[v].stake, rate), jail)
  BY DEF SlashDowntime, Fault
<1>2. rate \in Nat
  BY PipelineAssumption
<1> QED BY <1>1, <1>2, SlashWithAmountKeeps

LEMMA UnjailKeeps ==
  ASSUME PipelineInv, NEW v, Unjail(v)
  PROVE  PipelineInv'
<1>1. /\ block.step = "none" /\ v \in DOMAIN validators
      /\ validators' = [validators EXCEPT ![v].jailed = FALSE]
      /\ UNCHANGED <<pending, result, tags, stage, work, trackerVars, height,
                     committed_at, snapshot, block>>
  BY DEF Unjail
<1>2. SetType(validators)
  BY DEF PipelineInv, SetsInv
<1>3. [validators[v] EXCEPT !.jailed = FALSE] \in [stake : Nat, jailed : BOOLEAN]
  BY <1>1, <1>2 DEF SetType
<1>4. SetType(validators')
  BY <1>1, <1>2, <1>3 DEF SetType
<1> QED BY <1>1, <1>4, ValidatorKeeps

LEMMA ReinstateKeeps ==
  ASSUME PipelineInv, NEW v \in DOMAIN Genesis, Reinstate(v, Genesis[v])
  PROVE  PipelineInv'
<1>1. /\ block.step = "none"
      /\ validators' = [u \in DOMAIN validators \cup {v} |->
                          IF u = v THEN [stake |-> Genesis[v], jailed |-> FALSE]
                          ELSE validators[u]]
      /\ UNCHANGED <<pending, result, tags, stage, work, trackerVars, height,
                     committed_at, snapshot, block>>
  BY DEF Reinstate, Fault
<1>2. SetType(validators) /\ v \in Ids /\ Genesis[v] \in Nat
  BY GenesisAssumption DEF PipelineInv, SetsInv
<1>3. DOMAIN validators' = DOMAIN validators \cup {v}
  BY <1>1
<1>4. IsFiniteSet(DOMAIN validators')
  BY <1>2, <1>3, FS_AddElement DEF SetType
<1>5. validators' \in [DOMAIN validators' -> [stake : Nat, jailed : BOOLEAN]]
  BY <1>1, <1>2, <1>3 DEF SetType
<1>6. SetType(validators')
  BY <1>2, <1>3, <1>4, <1>5 DEF SetType
<1> QED BY <1>1, <1>6, ValidatorKeeps

LEMMA RestartKeeps ==
  ASSUME PipelineInv, Restart
  PROVE  PipelineInv'
<1>1. /\ block.step = "none"
      /\ validators' = [v \in DOMAIN Genesis |->
                          IF v \in DOMAIN snapshot THEN snapshot[v]
                          ELSE [stake |-> Genesis[v], jailed |-> FALSE]]
      /\ pending' = {} /\ DOMAIN result' = {} /\ tags' = 0
      /\ stage' = "idle" /\ work' = NoWork
      /\ DOMAIN records' = {} /\ latest_finalized' = 0 /\ superseded_floor' = 0
      /\ committed_at' = {}
      /\ UNCHANGED <<height, snapshot, block>>
  BY DEF Restart, Fault
<1>2. SetsInv'
  <2>1. SetType(snapshot) /\ DOMAIN validators' = DOMAIN Genesis
    BY <1>1 DEF PipelineInv, SetsInv
  <2>2. \A v \in DOMAIN Genesis : Genesis[v] \in Nat
    BY GenesisAssumption
  <2>3. validators' \in [DOMAIN validators' -> [stake : Nat, jailed : BOOLEAN]]
    BY <1>1, <2>1, <2>2 DEF SetType
  <2> QED BY <1>1, <2>1, <2>3, GenesisAssumption DEF SetsInv, SetType
<1>3. work'.todo = {}
  BY <1>1 DEF NoWork
<1>4. ChangesInv'
  <2>1. Changes' = {} /\ 1..tags' = {}
    BY <1>1, <1>3 DEF Changes
  <2> QED BY <1>1, <1>3, <2>1, FS_EmptySet DEF ChangesInv
<1>5. WindowInv'
  <2>1. Recorded' \in Nat
    BY <1>1 DEF Recorded, PipelineInv, BlockInv
  <2> QED BY <1>1, <2>1 DEF WindowInv
<1> QED BY <1>1, <1>2, <1>3, <1>4, <1>5, IdleKeeps

-----------------------------------------------------------------------------
\* Every step of the pipeline keeps the invariant.
LEMMA PipelineStep == PipelineInv /\ [Next]_vars => PipelineInv'
<1> SUFFICES ASSUME PipelineInv, [Next]_vars PROVE PipelineInv'
  OBVIOUS
<1>1. CASE UNCHANGED vars
  <2>1. SetsInv' /\ ChangesInv'
    BY <1>1 DEF PipelineInv, SetsInv, ChangesInv, Changes, vars, epochVars, nodeVars
  <2>2. BlockInv'
    BY <1>1 DEF PipelineInv, BlockInv, vars, epochVars, nodeVars
  <2>3. LimitsInv' /\ WindowInv'
    BY <1>1 DEF PipelineInv, LimitsInv, InLimits, Moved, FloorKept, AfterTransition,
                WindowInv, Recorded, vars, epochVars, nodeVars, trackerVars
  <2> QED BY <2>1, <2>2, <2>3 DEF PipelineInv
<1>2. ASSUME NEW S \in SUBSET Ids, OnBlockCommitted(S, FALSE, NoBlock)
      PROVE  PipelineInv'
  BY <1>2, OnBlockCommittedKeeps
<1>3. ASSUME NEW S \in SUBSET Ids, NEW r \in Requests, OnBlockCommitted(S, TRUE, r)
      PROVE  PipelineInv'
  BY <1>3, OnBlockCommittedKeeps
<1>4. CASE StartTransition
  BY <1>4, StartTransitionKeeps
<1>5. CASE RunTransition
  BY <1>5, RunTransitionKeeps
<1>6. CASE FinishCommit
  BY <1>6, FinishCommitKeeps
<1>7. CASE \E v \in Ids :
             \/ SlashEquivocation(v)
             \/ \E rate \in DowntimeRates, jail \in BOOLEAN : SlashDowntime(v, rate, jail)
             \/ Unjail(v)
  BY <1>7, SlashKeeps, SlashDowntimeKeeps, UnjailKeeps
<1>8. CASE \E v \in DOMAIN Genesis : Reinstate(v, Genesis[v])
  BY <1>8, ReinstateKeeps
<1>9. CASE Restart
  BY <1>9, RestartKeeps
<1>10. CASE SwitchChurnMode
  <2>1. /\ block.step = "none"
        /\ UNCHANGED <<epochVars, trackerVars, height, committed_at, snapshot, block>>
    BY <1>10 DEF SwitchChurnMode, Fault
  <2> QED BY <2>1, ValidatorKeeps DEF PipelineInv, SetsInv, epochVars
<1> QED BY <1>1, <1>2, <1>3, <1>4, <1>5, <1>6, <1>7, <1>8, <1>9, <1>10 DEF Next

\* The inductive invariant of the commit pipeline.
THEOREM PipelineInvariant == Spec => []PipelineInv
<1>1. Init => PipelineInv
  BY PipelineInitial
<1>2. PipelineInv /\ [Next]_vars => PipelineInv'
  BY PipelineStep
<1> QED BY <1>1, <1>2, PTL DEF Spec

\* Stakes never fall below zero, whatever is slashed, freed, restarted and
\* reinstated, and a transition is under way exactly while a boundary block is
\* at work on it (on_block_committed).
THEOREM PipelineTypeCorrect == Spec => []TypeOK
<1>1. PipelineInv => TypeOK
  <2> SUFFICES ASSUME PipelineInv PROVE TypeOK
    OBVIOUS
  <2>1. /\ DOMAIN validators \subseteq Ids
        /\ \A v \in DOMAIN validators : validators[v].stake \in Nat
                                        /\ validators[v].jailed \in BOOLEAN
    BY DEF PipelineInv, SetsInv, SetType
  <2>2. \A c \in Changes : c.kind \in Kinds /\ c.tag \in 1..tags
    BY DEF PipelineInv, ChangesInv, IsChange
  <2> QED BY <2>1, <2>2 DEF TypeOK, PipelineInv, BlockInv
<1> QED BY <1>1, PipelineInvariant, PTL

\* A change that queue_change accepted is waiting, at work or settled, and in
\* one of these places only, for every number of changes, boundaries and
\* requeues (apply_epoch_transition).
THEOREM NothingLostHolds == Spec => []NothingLost
<1>1. PipelineInv => NothingLost
  <2> SUFFICES ASSUME PipelineInv PROVE NothingLost
    OBVIOUS
  <2> DEFINE open == {c.tag : c \in Changes}
             tagOf == [c \in Changes |-> c.tag]
  <2>1. /\ open \cup DOMAIN result = 1..tags /\ open \cap DOMAIN result = {}
        /\ work.todo \cap pending = {}
    BY DEF PipelineInv, ChangesInv
  <2>2. IsFiniteSet(Changes)
    BY FS_Union DEF PipelineInv, ChangesInv, Changes
  <2>3. tagOf \in Bijection(Changes, open)
    <3>1. \A c, d \in Changes : tagOf[c] = tagOf[d] => c = d
      BY DEF PipelineInv, ChangesInv
    <3> QED BY <3>1 DEF Bijection, Injection, Surjection, IsInjective
  <2>4. Cardinality(open) = Cardinality(Changes)
    BY <2>2, <2>3, FS_Bijection, Zenon DEF ExistsBijection
  <2> QED BY <2>1, <2>4 DEF NothingLost
<1> QED BY <1>1, PipelineInvariant, PTL

\* A boundary moves at most a third, rounded up, of the active validators and
\* does not take them below MIN_VALIDATORS, for every set and every queue of
\* joins and leaves (apply_epoch_transition).
THEOREM BoundaryLimitsHolds == Spec => []BoundaryLimits
<1>1. PipelineInv => BoundaryLimits
  <2> SUFFICES ASSUME PipelineInv, AfterTransition PROVE BoundaryLimits
    BY DEF BoundaryLimits
  <2> DEFINE n == ActiveCount(block.set)
             third == (n + 2) \div 3
  <2>1. /\ SetType(validators) /\ SetType(block.set)
        /\ Cardinality(Moved) <= MaxChurn(n) /\ FloorKept
    BY DEF PipelineInv, SetsInv, BlockInv, LimitsInv, AfterTransition
  <2>2. n \in Nat /\ ActiveCount(validators) \in Nat
    BY <2>1, ActiveCountType
  <2>3. Cardinality(Moved) \in Nat
    <3>1. IsFiniteSet(DOMAIN block.set) /\ IsFiniteSet(DOMAIN validators)
      BY <2>1 DEF SetType
    <3>2. /\ IsFiniteSet(DOMAIN block.set \ DOMAIN validators)
          /\ IsFiniteSet(DOMAIN validators \ DOMAIN block.set)
      BY <3>1, FS_Difference
    <3> QED BY <3>2, FS_Union, FS_CardinalityType DEF Moved
  <2>4. Cardinality(Moved) <= Max({1, third})
    <3> HIDE DEF n
    <3>1. third \in Nat
      BY <2>2
    <3>2. Max({1, third}) \in {1, third} /\ 1 <= Max({1, third}) /\ third <= Max({1, third})
      BY <3>1, MaxOfTwo
    <3>3. MaxChurn(n) \in Nat /\ (MaxChurn(n) = 1 \/ MaxChurn(n) <= third)
      BY <2>2, MaxChurnBound
    <3> HIDE DEF third
    <3> QED BY <2>1, <2>3, <3>1, <3>2, <3>3
  <2>5. ActiveCount(validators) >= Min({MIN_VALIDATORS, n})
    <3>1. {MIN_VALIDATORS, n} \in SUBSET Nat
      BY <2>2, LimitsAssumption
    <3>2. /\ Min({MIN_VALIDATORS, n}) \in {MIN_VALIDATORS, n}
          /\ Min({MIN_VALIDATORS, n}) <= MIN_VALIDATORS /\ Min({MIN_VALIDATORS, n}) <= n
      BY <3>1, MinIsLeast
    <3> QED BY <2>1, <2>2, <3>2, LimitsAssumption DEF FloorKept
  <2> QED BY <2>4, <2>5 DEF BoundaryLimits, Moved
<1> QED BY <1>1, PipelineInvariant, PTL

-----------------------------------------------------------------------------
(***************************************************************************)
(* Cross-epoch agreement.  The transition moves stake up and down, and the *)
(* budget bounds the two together; that is all a quorum of the new set     *)
(* needs to meet a quorum of the old one.                                  *)
(***************************************************************************)
Stakes(vs) == [v \in DOMAIN vs |-> vs[v].stake]

TotalStake(vs) == SumStake(vs, DOMAIN vs)

\* A set differs from the block's by up and down: no subset gained more than up.
Shift(vs, old, up, down) ==
  /\ TotalStake(vs) = TotalStake(old) + up - down
  /\ \A R \in SUBSET DOMAIN vs : SumStake(vs, R) <= SumStake(old, R \cap DOMAIN old) + up

Shifted(vs, old, c) == \E up, down \in Nat : up + down <= c /\ Shift(vs, old, up, down)

InBudget ==
  /\ work.enforce = enforce /\ work.budget = StakeBudget(block.set)
  /\ work.churned \in Nat
  /\ enforce => work.churned <= work.budget /\ Shifted(validators, block.set, work.churned)

NobodyJailed == ActiveIds(block.set) = DOMAIN block.set
                  => ActiveIds(validators) = DOMAIN validators

ChurnInv ==
  /\ block.step = "transition" => InBudget /\ NobodyJailed
  /\ AfterTransition =>
       /\ NobodyJailed
       /\ enforce => Shifted(validators, block.set, StakeBudget(block.set))

-----------------------------------------------------------------------------
\* SumStake as a sum over the function of the stakes.
LEMMA StakeIsSum ==
  ASSUME NEW vs, NEW S \in SUBSET DOMAIN vs
  PROVE  SumStake(vs, S) = SumOver(Stakes(vs), S)
<1> DEFINE f == Stakes(vs)
           P(h) == h = [s \in SUBSET S |-> IF s = {} THEN 0
                          ELSE vs[Some(s)].stake + h[s \ {Some(s)}]]
<1>1. SumStake(vs, S) = (CHOOSE h : P(h))[S]
  BY Zenon DEF SumStake, MapThenSumSet, MapThenFoldSet, Some
<1>2. \A s \in SUBSET S : s # {} => f[Some(s)] = vs[Some(s)].stake
  <2>1. \A s \in SUBSET S : s # {} => Some(s) \in DOMAIN vs
    BY SomeIsIn
  <2> QED BY <2>1 DEF Stakes
<1> HIDE DEF f
<1>3. ASSUME NEW h PROVE P(h) <=> IsFoldOf(h, f, S)
  <2> DEFINE a(s) == IF s = {} THEN 0 ELSE vs[Some(s)].stake + h[s \ {Some(s)}]
             b(s) == IF s = {} THEN 0 ELSE f[Some(s)] + h[s \ {Some(s)}]
  <2>1. \A s \in SUBSET S : a(s) = b(s)
    BY <1>2
  <2>2. (P(h) <=> h = [s \in SUBSET S |-> a(s)])
        /\ (IsFoldOf(h, f, S) <=> h = [s \in SUBSET S |-> b(s)])
    BY Zenon DEF IsFoldOf
  <2> HIDE DEF a, b, P
  <2>3. [s \in SUBSET S |-> a(s)] = [s \in SUBSET S |-> b(s)]
    BY <2>1
  <2> QED BY <2>2, <2>3
<1> HIDE DEF P
<1>4. (CHOOSE h : P(h)) = (CHOOSE h : IsFoldOf(h, f, S))
  BY <1>3, Zenon
<1>5. SumOver(f, S) = (CHOOSE h : IsFoldOf(h, f, S))[S]
  BY SumIsFold
<1> QED BY <1>1, <1>4, <1>5 DEF f

\* Stake of sets of validators, from the lemmas on sums.
LEMMA StakesType ==
  ASSUME NEW vs, SetType(vs), NEW S \in SUBSET DOMAIN vs
  PROVE  IsFiniteSet(S) /\ \A x \in S : Stakes(vs)[x] = vs[x].stake /\ Stakes(vs)[x] \in Nat
BY FS_Subset DEF SetType, Stakes

LEMMA StakeSubset ==
  ASSUME NEW vs, SetType(vs), NEW S \in SUBSET DOMAIN vs, NEW T \in SUBSET S
  PROVE  /\ SumStake(vs, S) \in Nat /\ SumStake(vs, T) \in Nat
         /\ SumStake(vs, T) <= SumStake(vs, S)
<1> DEFINE f == Stakes(vs)
<1>1. SumStake(vs, S) = SumOver(f, S) /\ SumStake(vs, T) = SumOver(f, T)
  BY StakeIsSum
<1>2. IsFiniteSet(S) /\ \A x \in S : f[x] \in Nat
  BY StakesType
<1> HIDE DEF f
<1> QED BY <1>1, <1>2, SumType, SumOfSubset

\* Stake is additive.
LEMMA StakeUnion ==
  ASSUME NEW vs, SetType(vs), NEW S \in SUBSET DOMAIN vs, NEW T \in SUBSET DOMAIN vs
  PROVE  SumStake(vs, S \cup T) + SumStake(vs, S \cap T) = SumStake(vs, S) + SumStake(vs, T)
<1> DEFINE f == Stakes(vs)
           A == S \cup T
           B == S \cap T
<1>1. /\ SumStake(vs, S) = SumOver(f, S) /\ SumStake(vs, T) = SumOver(f, T)
      /\ SumStake(vs, A) = SumOver(f, A) /\ SumStake(vs, B) = SumOver(f, B)
  BY StakeIsSum
<1>2. IsFiniteSet(S) /\ IsFiniteSet(T) /\ \A x \in S \cup T : f[x] \in Nat
  BY StakesType
<1> HIDE DEF f
<1>3. SumOver(f, S \cup T) + SumOver(f, S \cap T) = SumOver(f, S) + SumOver(f, T)
  BY <1>2, SumOfUnion
<1> QED BY <1>1, <1>3

LEMMA StakeElement ==
  ASSUME NEW vs, SetType(vs), NEW R \in SUBSET DOMAIN vs, NEW v \in R
  PROVE  SumStake(vs, R) = vs[v].stake + SumStake(vs, R \ {v})
<1> DEFINE f == Stakes(vs)
           S == R \ {v}
<1>1. SumStake(vs, R) = SumOver(f, R) /\ SumStake(vs, S) = SumOver(f, S)
  BY StakeIsSum
<1>2. IsFiniteSet(R) /\ \A x \in R : f[x] \in Nat /\ f[x] = vs[x].stake
  BY StakesType
<1> HIDE DEF f
<1>3. SumOver(f, R) = f[v] + SumOver(f, R \ {v})
  BY <1>2, SumOfElement
<1> QED BY <1>1, <1>2, <1>3

\* Two sets with the same stakes in S.
SameStakes(vs, ws, S) ==
  \A u \in S : u \in DOMAIN vs /\ u \in DOMAIN ws /\ vs[u].stake = ws[u].stake

\* The stake of a set depends on its members only.
LEMMA StakeCongruent ==
  ASSUME NEW vs, SetType(vs), NEW ws, SetType(ws), NEW S, SameStakes(vs, ws, S)
  PROVE  SumStake(vs, S) = SumStake(ws, S)
<1> DEFINE f == Stakes(vs)
           g == Stakes(ws)
<1>1. S \in SUBSET DOMAIN vs /\ S \in SUBSET DOMAIN ws
  BY DEF SameStakes
<1>2. SumStake(vs, S) = SumOver(f, S) /\ SumStake(ws, S) = SumOver(g, S)
  BY <1>1, StakeIsSum
<1>3. IsFiniteSet(S) /\ \A x \in S : f[x] = g[x]
  BY <1>1, StakesType DEF SameStakes
<1> HIDE DEF f, g
<1> QED BY <1>2, <1>3, SumCongruent

-----------------------------------------------------------------------------
\* The three ways a change moves stake.
LEMMA JoinShifts ==
  ASSUME NEW vs, SetType(vs), NEW ws, NEW old, SetType(old),
         NEW v \in Ids, v \notin DOMAIN vs, NEW stake \in Nat,
         ws = [u \in DOMAIN vs \cup {v} |->
                          IF u = v THEN [stake |-> stake, jailed |-> FALSE]
                          ELSE vs[u]],
         NEW c \in Nat, Shifted(vs, old, c)
  PROVE  Shifted(ws, old, c + stake)
<1>1. PICK up \in Nat, down \in Nat : up + down <= c /\ Shift(vs, old, up, down)
  BY DEF Shifted
<1>2. SetType(ws) /\ DOMAIN ws = DOMAIN vs \cup {v}
  BY JoinedSet, SMTT(30)
<1>3. ws[v].stake = stake
  BY <1>2
<1>4. ASSUME NEW R \in SUBSET DOMAIN ws
      PROVE  /\ SumStake(ws, R) <= SumStake(old, R \cap DOMAIN old)
                                            + up + stake
             /\ v \in R => SumStake(ws, R) = stake + SumStake(vs, R \ {v})
  <2> DEFINE S == R \ {v}
             oldR == SumStake(old, R \cap DOMAIN old)
             oldS == SumStake(old, S \cap DOMAIN old)
  <2>1. S \in SUBSET DOMAIN vs
    BY <1>2
  <2>2. SameStakes(vs, ws, S)
    BY <1>2 DEF SameStakes
  <2>3. /\ SumStake(ws, S) = SumStake(vs, S)
        /\ v \in R => SumStake(ws, R) = stake + SumStake(ws, S)
    <3>1. SumStake(vs, S) = SumStake(ws, S)
      BY <1>2, <2>2, StakeCongruent
    <3>2. v \in R => SumStake(ws, R) = ws[v].stake + SumStake(ws, R \ {v})
      BY <1>2, StakeElement
    <3> QED BY <1>3, <3>1, <3>2
  <2>4. SumStake(vs, S) <= oldS + up /\ SumStake(vs, S) \in Nat
    BY <1>1, <2>1, StakeSubset DEF Shift
  <2>5. oldS \in Nat /\ oldR \in Nat /\ oldS <= oldR
    <3>1. /\ R \cap DOMAIN old \in SUBSET DOMAIN old
          /\ S \cap DOMAIN old \in SUBSET (R \cap DOMAIN old)
      OBVIOUS
    <3> QED BY <3>1, StakeSubset
  <2>6. v \notin R => S = R
    OBVIOUS
  <2> HIDE DEF S, oldR, oldS
  <2>7. SumStake(ws, R) <= oldR + up + stake
    BY <2>3, <2>4, <2>5, <2>6
  <2> QED BY <2>3, <2>7 DEF oldR, S
<1>5. TotalStake(ws) = TotalStake(vs) + stake
  <2>1. DOMAIN ws \ {v} = DOMAIN vs /\ v \in DOMAIN ws
    BY <1>2
  <2>2. SumStake(ws, DOMAIN ws)
          = stake + SumStake(vs, DOMAIN ws \ {v})
    BY <1>4, <2>1
  <2>3. SumStake(vs, DOMAIN vs) \in Nat
    BY StakeSubset
  <2> QED BY <2>1, <2>2, <2>3 DEF TotalStake
<1>6. TotalStake(vs) \in Nat /\ TotalStake(old) \in Nat
  BY StakeSubset DEF TotalStake
<1>7. (up + stake) + down <= c + stake /\ Shift(ws, old, up + stake, down)
  <2>1. (up + stake) + down <= c + stake
    BY <1>1 DEF Shift
  <2>2. TotalStake(ws) = TotalStake(old) + (up + stake) - down
    BY <1>1, <1>5, <1>6 DEF Shift
  <2>3. ASSUME NEW R \in SUBSET DOMAIN ws
        PROVE  SumStake(ws, R)
                 <= SumStake(old, R \cap DOMAIN old) + (up + stake)
    <3>1. R \cap DOMAIN old \in SUBSET DOMAIN old
      OBVIOUS
    <3>2. SumStake(old, R \cap DOMAIN old) \in Nat
      BY <3>1, StakeSubset
    <3>3. SumStake(ws, R) \in Nat
      BY <1>2, StakeSubset
    <3>4. SumStake(ws, R) <= SumStake(old, R \cap DOMAIN old) + up + stake
      BY <1>4
    <3> QED BY <3>2, <3>3, <3>4
  <2> QED BY <2>1, <2>2, <2>3 DEF Shift
<1>8. up + stake \in Nat
  OBVIOUS
<1> QED BY <1>7, <1>8 DEF Shifted

\* A leave takes at most the stake of the leaving validator from any set.
LEMMA LeaveShifts ==
  ASSUME NEW vs, SetType(vs), NEW ws, NEW old, SetType(old),
         NEW v \in DOMAIN vs,
         ws = [u \in DOMAIN vs \ {v} |-> vs[u]],
         NEW c \in Nat, Shifted(vs, old, c)
  PROVE  Shifted(ws, old, c + vs[v].stake)
<1> DEFINE stake == vs[v].stake
<1>0. stake \in Nat
  BY DEF SetType
<1>1. PICK up \in Nat, down \in Nat : up + down <= c /\ Shift(vs, old, up, down)
  BY DEF Shifted
<1>2. SetType(ws) /\ DOMAIN ws = DOMAIN vs \ {v}
  BY LeftSet
<1>3. ASSUME NEW R \in SUBSET DOMAIN ws
      PROVE  /\ SumStake(ws, R) = SumStake(vs, R)
             /\ SumStake(ws, R) <= SumStake(old, R \cap DOMAIN old) + up
  <2>1. R \ {v} = R /\ R \in SUBSET DOMAIN vs
    BY <1>2
  <2>2. SameStakes(vs, ws, R)
    BY <1>2, <2>1 DEF SameStakes
  <2>3. SumStake(vs, R) = SumStake(ws, R)
    BY <1>2, <2>2, StakeCongruent
  <2> QED BY <1>1, <2>1, <2>3 DEF Shift
<1>4. TotalStake(vs) = stake + TotalStake(ws)
  <2>1. SumStake(vs, DOMAIN vs)
          = stake + SumStake(vs, DOMAIN vs \ {v})
    BY StakeElement
  <2>2. SumStake(ws, DOMAIN ws) = SumStake(vs, DOMAIN ws)
    BY <1>3
  <2> QED BY <1>2, <2>1, <2>2 DEF TotalStake
<1>5. /\ TotalStake(vs) \in Nat /\ TotalStake(ws) \in Nat
      /\ TotalStake(old) \in Nat
  BY <1>2, StakeSubset DEF TotalStake
<1> HIDE DEF stake
<1>6. up + (down + stake) <= c + stake /\ Shift(ws, old, up, down + stake)
  <2>1. up + (down + stake) <= c + stake
    BY <1>0, <1>1 DEF Shift
  <2>2. TotalStake(ws) = TotalStake(old) + up - (down + stake)
    BY <1>0, <1>1, <1>4, <1>5 DEF Shift
  <2> QED BY <1>3, <2>1, <2>2 DEF Shift
<1>7. down + stake \in Nat
  BY <1>0
<1>8. Shifted(ws, old, c + stake)
  BY <1>6, <1>7 DEF Shifted
<1> QED BY <1>8 DEF stake

\* ws is vs with the stake of v replaced.
Restaked(vs, ws, v, stake) == ws = [vs EXCEPT ![v].stake = stake]

\* An update changes the stake of any set by at most the difference.
LEMMA UpdateShifts ==
  ASSUME NEW vs, SetType(vs), NEW ws, NEW old, SetType(old),
         NEW v \in DOMAIN vs, NEW stake \in Nat,
         Restaked(vs, ws, v, stake),
         NEW c \in Nat, Shifted(vs, old, c)
  PROVE  Shifted(ws, old, c + AbsDiff(vs[v].stake, stake))
<1> DEFINE was == vs[v].stake
<1>0. was \in Nat
  BY DEF SetType
<1>1. PICK up \in Nat, down \in Nat : up + down <= c /\ Shift(vs, old, up, down)
  BY DEF Shifted
<1>2. /\ SetType(ws) /\ DOMAIN ws = DOMAIN vs
      /\ ws[v].stake = stake
  BY UpdatedSet DEF SetType, Restaked
<1>3. ASSUME NEW R \in SUBSET DOMAIN vs
      PROVE  /\ SumStake(ws, R) \in Nat /\ SumStake(vs, R) \in Nat
             /\ v \in R => SumStake(ws, R) = SumStake(vs, R) + stake - was
             /\ v \notin R => SumStake(ws, R) = SumStake(vs, R)
  <2>1. SameStakes(vs, ws, R \ {v})
    BY <1>2 DEF SameStakes, Restaked
  <2>2. /\ SumStake(ws, R \ {v}) = SumStake(vs, R \ {v})
        /\ v \in R => SumStake(ws, R) = stake + SumStake(ws, R \ {v})
    <3>1. SumStake(vs, R \ {v}) = SumStake(ws, R \ {v})
      BY <1>2, <2>1, StakeCongruent
    <3>2. R \in SUBSET DOMAIN ws
      BY <1>2
    <3>3. v \in R => SumStake(ws, R) = ws[v].stake + SumStake(ws, R \ {v})
      BY <1>2, <3>2, StakeElement
    <3> QED BY <1>2, <3>1, <3>3
  <2>3. v \in R => SumStake(vs, R) = was + SumStake(vs, R \ {v})
    BY StakeElement
  <2>4. /\ SumStake(ws, R) \in Nat /\ SumStake(vs, R) \in Nat
        /\ SumStake(vs, R \ {v}) \in Nat
    BY <1>2, StakeSubset
  <2>5. v \notin R => R \ {v} = R
    OBVIOUS
  <2> HIDE DEF was
  <2> QED BY <1>0, <2>2, <2>3, <2>4, <2>5
<1> HIDE DEF was
<1>4. TotalStake(ws) = TotalStake(vs) + stake - was
  BY <1>2, <1>3 DEF TotalStake
<1>5. TotalStake(vs) \in Nat /\ TotalStake(old) \in Nat
  BY StakeSubset DEF TotalStake
<1>6. \A R \in SUBSET DOMAIN vs : SumStake(old, R \cap DOMAIN old) \in Nat
  <2>1. \A R : R \cap DOMAIN old \in SUBSET DOMAIN old
    OBVIOUS
  <2> QED BY <2>1, StakeSubset
<1>7. CASE was < stake
  <2> DEFINE d == stake - was
  <2>1. d \in Nat /\ AbsDiff(was, stake) = d
    BY <1>0, <1>7 DEF AbsDiff
  <2>2. (up + d) + down <= c + d
    BY <1>1, <2>1 DEF Shift
  <2>3. TotalStake(ws) = TotalStake(old) + (up + d) - down
    BY <1>0, <1>1, <1>4, <1>5 DEF Shift
  <2>4. ASSUME NEW R \in SUBSET DOMAIN ws
        PROVE  SumStake(ws, R)
                 <= SumStake(old, R \cap DOMAIN old) + (up + d)
    <3>1. R \in SUBSET DOMAIN vs
      BY <1>2
    <3>2. SumStake(vs, R) <= SumStake(old, R \cap DOMAIN old) + up
      BY <1>1, <3>1 DEF Shift
    <3>3. /\ SumStake(ws, R) \in Nat /\ SumStake(vs, R) \in Nat
          /\ SumStake(ws, R) \in {SumStake(vs, R), SumStake(vs, R) + stake - was}
          /\ SumStake(old, R \cap DOMAIN old) \in Nat
      BY <1>3, <1>6, <3>1
    <3> QED BY <1>0, <1>7, <3>2, <3>3
  <2> HIDE DEF d
  <2>5. Shift(ws, old, up + d, down)
    BY <2>2, <2>3, <2>4 DEF Shift
  <2>6. Shifted(ws, old, c + d)
    BY <2>1, <2>2, <2>5 DEF Shifted
  <2> QED BY <2>1, <2>6 DEF was
<1>8. CASE ~(was < stake)
  <2> DEFINE d == was - stake
  <2>1. d \in Nat /\ AbsDiff(was, stake) = d
    BY <1>0, <1>8 DEF AbsDiff
  <2>2. up + (down + d) <= c + d
    BY <1>1, <2>1 DEF Shift
  <2>3. TotalStake(ws) = TotalStake(old) + up - (down + d)
    BY <1>0, <1>1, <1>4, <1>5 DEF Shift
  <2>4. ASSUME NEW R \in SUBSET DOMAIN ws
        PROVE  SumStake(ws, R) <= SumStake(old, R \cap DOMAIN old) + up
    <3>1. R \in SUBSET DOMAIN vs
      BY <1>2
    <3>2. SumStake(vs, R) <= SumStake(old, R \cap DOMAIN old) + up
      BY <1>1, <3>1 DEF Shift
    <3>3. /\ SumStake(ws, R) \in Nat /\ SumStake(vs, R) \in Nat
          /\ SumStake(ws, R) \in {SumStake(vs, R), SumStake(vs, R) + stake - was}
          /\ SumStake(old, R \cap DOMAIN old) \in Nat
      BY <1>3, <1>6, <3>1
    <3> QED BY <1>0, <1>8, <3>2, <3>3
  <2> HIDE DEF d
  <2>5. Shift(ws, old, up, down + d)
    BY <2>2, <2>3, <2>4 DEF Shift
  <2>6. Shifted(ws, old, c + d)
    BY <2>1, <2>2, <2>5 DEF Shifted
  <2> QED BY <2>1, <2>6 DEF was
<1> QED BY <1>7, <1>8

-----------------------------------------------------------------------------
\* One change within the budget.
LEMMA ApplyStaysInBudget ==
  ASSUME PipelineInv, InBudget, SetType(block.set), NEW c \in work.todo,
         ApplyStakeUpdate(c) \/ ApplyJoin(c) \/ ApplyLeave(c),
         block'.set = block.set, enforce' = enforce
  PROVE  InBudget'
<1>1. /\ IsChange(c) /\ DOMAIN work = DOMAIN NoWork /\ SetType(validators)
  BY DEF PipelineInv, ChangesInv, Changes, SetsInv
<1>2. ASSUME work' = [work EXCEPT !.todo = @ \ {c}], validators' = validators
      PROVE  InBudget'
  <2>1. /\ work'.enforce = work.enforce /\ work'.budget = work.budget
        /\ work'.churned = work.churned
    BY <1>1, <1>2 DEF NoWork
  <2> QED BY <1>2, <2>1 DEF InBudget
<1>3. ASSUME NEW vs, NEW changes, NEW churn \in Nat, Apply(c, vs, changes, churn),
             ~OverBudget(churn),
             enforce => Shifted(vs, block.set, work.churned + churn)
      PROVE  InBudget'
  <2>1. /\ validators' = vs
        /\ work' = [work EXCEPT !.todo = @ \ {c}, !.changes = @ + changes,
                                !.churned = @ + churn]
    BY <1>3 DEF Apply
  <2>2. /\ work'.enforce = work.enforce /\ work'.budget = work.budget
        /\ work'.churned = work.churned + churn
    BY <1>1, <2>1 DEF NoWork
  <2>3. /\ work.enforce = enforce /\ work.budget = StakeBudget(block.set)
        /\ work.churned \in Nat
    BY DEF InBudget
  <2>4. StakeBudget(block.set) \in Nat
    <3>1. SumStake(block.set, DOMAIN block.set) \in Nat
      BY StakeSubset
    <3> QED BY <3>1 DEF StakeBudget
  <2>5. enforce => work.churned + churn <= work.budget
    BY <1>3, <2>3, <2>4 DEF OverBudget
  <2>6. enforce => Shifted(validators', block.set, work'.churned)
    BY <1>3, <2>1, <2>2
  <2>7. work'.churned \in Nat
    BY <1>3, <2>2, <2>3
  <2> QED BY <2>2, <2>3, <2>5, <2>6, <2>7 DEF InBudget
<1>4. CASE Reject(c) \/ Requeue(c)
  BY <1>2, <1>4 DEF Reject, Requeue
<1>5. enforce => Shifted(validators, block.set, work.churned) /\ work.churned \in Nat
  BY DEF InBudget
<1>6. CASE ApplyStakeUpdate(c)
  <2> DEFINE churn == AbsDiff(StakeOfId(validators, c.id), c.stake)
             vs == [validators EXCEPT ![c.id].stake = c.stake]
  <2>1. CASE c.id \in DOMAIN validators /\ ~OverBudget(churn) /\ Apply(c, vs, 0, churn)
    <3>1. c.stake \in Nat /\ validators[c.id].stake \in Nat
          /\ StakeOfId(validators, c.id) = validators[c.id].stake
      BY <1>1, <2>1 DEF IsChange, SetType, StakeOfId
    <3>2. churn \in Nat
      BY <3>1 DEF AbsDiff
    <3>3. enforce => Shifted(vs, block.set,
                             work.churned + AbsDiff(validators[c.id].stake, c.stake))
      <4> DEFINE was == validators[c.id].stake
      <4>1. PICK ws : ws = vs
        OBVIOUS
      <4> HIDE DEF vs
      <4>2. Restaked(validators, ws, c.id, c.stake)
        BY <4>1 DEF vs, Restaked
      <4>3. enforce => Shifted(ws, block.set, work.churned + AbsDiff(validators[c.id].stake, c.stake))
        BY <1>1, <1>5, <2>1, <3>1, <4>2, UpdateShifts
      <4> QED BY <4>1, <4>3
    <3>4. enforce => Shifted(vs, block.set, work.churned + churn)
      BY <3>1, <3>3
    <3> HIDE DEF vs, churn
    <3> QED BY <1>3, <2>1, <3>2, <3>4
  <2>2. \/ Reject(c) \/ Requeue(c)
        \/ c.id \in DOMAIN validators /\ ~OverBudget(churn) /\ Apply(c, vs, 0, churn)
    BY <1>6 DEF ApplyStakeUpdate, Member
  <2> QED BY <1>4, <2>1, <2>2
<1>7. CASE ApplyJoin(c)
  <2> DEFINE vs == [v \in DOMAIN validators \cup {c.id} |->
                      IF v = c.id THEN [stake |-> c.stake, jailed |-> FALSE]
                      ELSE validators[v]]
  <2>1. CASE c.id \notin DOMAIN validators /\ ~OverBudget(c.stake) /\ Apply(c, vs, 1, c.stake)
    <3>1. c.stake \in Nat /\ c.id \in Ids
      BY <1>1 DEF IsChange
    <3>2. enforce => Shifted(vs, block.set, work.churned + c.stake)
      <4>1. PICK ws : ws = vs
        OBVIOUS
      <4>2. enforce => Shifted(ws, block.set, work.churned + c.stake)
        BY <1>1, <1>5, <2>1, <3>1, <4>1, JoinShifts
      <4> HIDE DEF vs
      <4> QED BY <4>1, <4>2
    <3> HIDE DEF vs
    <3> QED BY <1>3, <2>1, <3>1, <3>2
  <2>2. \/ Reject(c) \/ Requeue(c)
        \/ c.id \notin DOMAIN validators /\ ~OverBudget(c.stake) /\ Apply(c, vs, 1, c.stake)
    BY <1>7 DEF ApplyJoin, Member
  <2> QED BY <1>4, <2>1, <2>2
<1>8. CASE ApplyLeave(c)
  <2> DEFINE churn == StakeOfId(validators, c.id)
             vs == [v \in DOMAIN validators \ {c.id} |-> validators[v]]
  <2>1. CASE c.id \in DOMAIN validators /\ ~OverBudget(churn) /\ Apply(c, vs, 1, churn)
    <3>1. churn = validators[c.id].stake /\ churn \in Nat
      BY <1>1, <2>1 DEF SetType, StakeOfId
    <3>2. enforce => Shifted(vs, block.set, work.churned + validators[c.id].stake)
      <4>1. PICK ws : ws = vs
        OBVIOUS
      <4>2. enforce => Shifted(ws, block.set, work.churned + validators[c.id].stake)
        BY <1>1, <1>5, <2>1, <4>1, LeaveShifts
      <4> HIDE DEF vs
      <4> QED BY <4>1, <4>2
    <3> HIDE DEF vs, churn
    <3> QED BY <1>3, <2>1, <3>1, <3>2
  <2>2. \/ Reject(c) \/ Requeue(c)
        \/ c.id \in DOMAIN validators /\ ~OverBudget(churn) /\ Apply(c, vs, 1, churn)
    BY <1>8 DEF ApplyLeave, Member
  <2> QED BY <1>4, <2>1, <2>2
<1> QED BY <1>6, <1>7, <1>8

\* A transition jails nobody.
LEMMA ApplyJailsNobody ==
  ASSUME PipelineInv, NobodyJailed, NEW c \in work.todo,
         ApplyStakeUpdate(c) \/ ApplyJoin(c) \/ ApplyLeave(c), block'.set = block.set
  PROVE  NobodyJailed'
<1>1. SetType(validators) /\ IsChange(c)
  BY DEF PipelineInv, SetsInv, ChangesInv, Changes
<1>2. CASE validators' = validators
  BY <1>2 DEF NobodyJailed
<1>3. CASE validators' = [validators EXCEPT ![c.id].stake = c.stake] /\ c.id \in DOMAIN validators
  <2>1. /\ DOMAIN validators' = DOMAIN validators
        /\ ActiveIds(validators') = ActiveIds(validators)
    BY <1>1, <1>3, UpdatedSet DEF IsChange
  <2> QED BY <2>1 DEF NobodyJailed
<1>4. CASE validators' = [v \in DOMAIN validators \cup {c.id} |->
                            IF v = c.id THEN [stake |-> c.stake, jailed |-> FALSE]
                            ELSE validators[v]]
  BY <1>4 DEF NobodyJailed, ActiveIds
<1>5. CASE validators' = [v \in DOMAIN validators \ {c.id} |-> validators[v]]
  BY <1>5 DEF NobodyJailed, ActiveIds
<1>6. CASE ApplyStakeUpdate(c)
  BY <1>2, <1>3, <1>6 DEF ApplyStakeUpdate, Reject, Requeue, Apply, Member
<1>7. CASE ApplyJoin(c)
  BY <1>2, <1>4, <1>7 DEF ApplyJoin, Reject, Requeue, Apply
<1>8. CASE ApplyLeave(c)
  BY <1>2, <1>5, <1>8 DEF ApplyLeave, Reject, Requeue, Apply
<1> QED BY <1>6, <1>7, <1>8

\* The set of the block itself is not shifted at all.
LEMMA NothingShifted ==
  ASSUME NEW vs, SetType(vs)
  PROVE  Shifted(vs, vs, 0)
<1>1. TotalStake(vs) \in Nat
  BY StakeSubset DEF TotalStake
<1>2. \A R \in SUBSET DOMAIN vs : SumStake(vs, R) \in Nat /\ R \cap DOMAIN vs = R
  BY StakeSubset
<1>3. Shift(vs, vs, 0, 0)
  BY <1>1, <1>2 DEF Shift
<1> QED BY <1>3 DEF Shifted

\* Every step keeps the stake moved so far within the budget.
LEMMA ChurnStep == PipelineInv /\ ChurnInv /\ [Next]_vars => ChurnInv'
<1> SUFFICES ASSUME PipelineInv, ChurnInv, [Next]_vars PROVE ChurnInv'
  OBVIOUS
<1>1. CASE UNCHANGED vars
  BY <1>1 DEF ChurnInv, InBudget, NobodyJailed, AfterTransition, vars, epochVars, nodeVars
<1>2. ASSUME block'.step \in {"none", "boundary"}
             \/ (block'.step = "finality" /\ ~IsEpochBoundary(block'.number))
      PROVE  ChurnInv'
  BY <1>2 DEF ChurnInv, AfterTransition
<1>3. ASSUME NEW S, NEW hasChange, NEW change, OnBlockCommitted(S, hasChange, change)
      PROVE  ChurnInv'
  <2>1. /\ block'.step = IF IsEpochBoundary(height) THEN "boundary" ELSE "finality"
        /\ block'.number = height
    BY <1>3 DEF OnBlockCommitted
  <2>2. IsEpochBoundary(block'.number) <=> IsEpochBoundary(height)
    BY <2>1
  <2> QED BY <1>2, <2>1, <2>2
<1>4. CASE StartTransition
  <2> DEFINE w == [NoWork EXCEPT !.epoch = block.epoch, !.enforce = enforce,
                                 !.maxChurn = MaxChurn(ActiveCount(validators)),
                                 !.budget = StakeBudget(validators)]
  <2>1. /\ block.step = "boundary" /\ EnterStage("update", w)
        /\ block' = [block EXCEPT !.step = "transition"]
        /\ UNCHANGED nodeVars
    BY <1>4 DEF StartTransition, BeginTransition
  <2>2. /\ DOMAIN w = DOMAIN NoWork /\ w.enforce = enforce
        /\ w.budget = StakeBudget(validators) /\ w.churned = 0
    BY DEF NoWork
  <2> HIDE DEF w
  <2>3. work' = [w EXCEPT !.todo = Due("update", w)] /\ validators' = validators
    BY <2>1 DEF EnterStage
  <2>4. /\ work'.enforce = enforce /\ work'.churned = 0
        /\ work'.budget = StakeBudget(validators)
    BY <2>2, <2>3 DEF NoWork
  <2>5. block'.set = block.set /\ block'.step = "transition"
    BY <2>1 DEF PipelineInv, BlockInv, NoBlock
  <2>6. validators = block.set /\ SetType(validators) /\ enforce' = enforce
    BY <2>1 DEF PipelineInv, BlockInv, SetsInv, nodeVars
  <2>7. StakeBudget(validators) \in Nat
    <3>1. SumStake(validators, DOMAIN validators) \in Nat
      BY <2>6, StakeSubset
    <3> QED BY <3>1 DEF StakeBudget
  <2>8. Shifted(validators, validators, 0)
    BY <2>6, NothingShifted
  <2>9. Shifted(validators', block'.set, work'.churned)
    BY <2>3, <2>4, <2>5, <2>6, <2>8
  <2>10. work'.churned \in Nat /\ work'.churned <= work'.budget
    BY <2>4, <2>7
  <2>11. work'.budget = StakeBudget(block'.set) /\ work'.enforce = enforce'
    BY <2>4, <2>5, <2>6
  <2>12. InBudget'
    BY <2>9, <2>10, <2>11 DEF InBudget
  <2>13. NobodyJailed'
    BY <2>3, <2>5, <2>6 DEF NobodyJailed
  <2> QED BY <2>5, <2>12, <2>13 DEF ChurnInv, AfterTransition
<1>5. CASE RunTransition
  <2>1. /\ block.step = "transition" /\ TransitionStep
        /\ block' = [block EXCEPT !.step = IF stage' = "idle" THEN "finality" ELSE @]
        /\ enforce' = enforce
    BY <1>5 DEF RunTransition, nodeVars
  <2>2. /\ block'.step = IF stage' = "idle" THEN "finality" ELSE "transition"
        /\ block'.set = block.set
    BY <2>1 DEF PipelineInv, BlockInv, NoBlock
  <2>3. /\ InBudget /\ NobodyJailed /\ SetType(block.set) /\ stage # "idle"
        /\ DOMAIN work = DOMAIN NoWork
    BY <2>1 DEF ChurnInv, PipelineInv, BlockInv, ChangesInv
  <2>4. ASSUME NEW c \in work.todo, ApplyStakeUpdate(c) \/ ApplyJoin(c) \/ ApplyLeave(c)
        PROVE  ChurnInv'
    <3>1. InBudget' /\ NobodyJailed'
      BY <2>1, <2>2, <2>3, <2>4, ApplyStaysInBudget, ApplyJailsNobody
    <3>2. stage' = stage
      BY <2>4 DEF ApplyStakeUpdate, ApplyJoin, ApplyLeave, Reject, Requeue, Apply
    <3> QED BY <2>2, <2>3, <3>1, <3>2 DEF ChurnInv, AfterTransition
  <2>5. ASSUME NEW s \in Kinds, EnterStage(s, work)
        PROVE  ChurnInv'
    <3>1. /\ stage' = s /\ work' = [work EXCEPT !.todo = Due(s, work)]
          /\ validators' = validators
      BY <2>5 DEF EnterStage
    <3>2. /\ work'.enforce = work.enforce /\ work'.budget = work.budget
          /\ work'.churned = work.churned
      BY <2>3, <3>1 DEF NoWork
    <3>3. InBudget' /\ NobodyJailed'
      BY <2>1, <2>2, <2>3, <3>1, <3>2 DEF InBudget, NobodyJailed
    <3>4. stage' # "idle"
      BY <3>1 DEF Kinds
    <3> QED BY <2>2, <3>3, <3>4 DEF ChurnInv, AfterTransition
  <2>6. CASE NextStage
    BY <2>5, <2>6 DEF NextStage, Kinds
  <2>7. CASE EndTransition
    <3>1. stage' = "idle" /\ validators' = validators
      BY <2>7 DEF EndTransition
    <3>2. NobodyJailed'
      BY <2>2, <2>3, <3>1 DEF NobodyJailed
    <3>3. enforce => Shifted(validators, block.set, StakeBudget(block.set))
      <4>1. StakeBudget(block.set) \in Nat
        <5>1. SumStake(block.set, DOMAIN block.set) \in Nat
          BY <2>3, StakeSubset
        <5> QED BY <5>1 DEF StakeBudget
      <4> SUFFICES ASSUME enforce PROVE Shifted(validators, block.set, StakeBudget(block.set))
        OBVIOUS
      <4>2. /\ work.churned \in Nat /\ work.churned <= StakeBudget(block.set)
            /\ Shifted(validators, block.set, work.churned)
        BY <2>3 DEF InBudget
      <4>3. PICK up \in Nat, down \in Nat :
              up + down <= work.churned /\ Shift(validators, block.set, up, down)
        BY <4>2 DEF Shifted
      <4>4. up + down <= StakeBudget(block.set)
        BY <4>1, <4>2, <4>3
      <4> QED BY <4>3, <4>4 DEF Shifted
    <3>4. enforce' => Shifted(validators', block'.set, StakeBudget(block'.set))
      BY <2>1, <2>2, <3>1, <3>3
    <3> QED BY <2>2, <3>1, <3>2, <3>4 DEF ChurnInv, AfterTransition
  <2> QED BY <2>1, <2>4, <2>6, <2>7 DEF TransitionStep
<1>6. CASE FinishCommit
  <2>1. block'.step = "none"
    BY <1>6 DEF FinishCommit, NoBlock
  <2> QED BY <1>2, <2>1
<1>7. ASSUME block.step = "none", block' = block
      PROVE  ChurnInv'
  BY <1>2, <1>7
<1>8. CASE \E v \in Ids :
             \/ SlashEquivocation(v)
             \/ \E rate \in DowntimeRates, jail \in BOOLEAN : SlashDowntime(v, rate, jail)
             \/ Unjail(v)
  BY <1>7, <1>8 DEF SlashEquivocation, SlashDowntime, SlashWithAmount, Unjail, Fault
<1>9. CASE \E v \in DOMAIN Genesis : Reinstate(v, Genesis[v])
  BY <1>7, <1>9 DEF Reinstate, Fault
<1>10. CASE Restart \/ SwitchChurnMode
  BY <1>7, <1>10 DEF Restart, SwitchChurnMode, Fault
<1> QED BY <1>1, <1>3, <1>4, <1>5, <1>6, <1>8, <1>9, <1>10 DEF Next

\* The stake that moves at a boundary stays within the budget that
\* apply_epoch_transition takes from the set it found.
THEOREM ChurnInvariant == Spec => []ChurnInv
<1>1. Init => ChurnInv
  BY DEF Init, ChurnInv, AfterTransition, NoBlock
<1>2. PipelineInv /\ ChurnInv /\ [Next]_vars => ChurnInv'
  BY ChurnStep
<1> QED BY <1>1, <1>2, PipelineInvariant, PTL DEF Spec

\* Rule C5: with the stake churn enforced and nobody jailed, a quorum of the set
\* before a boundary and a quorum of the set after it share more than a quarter
\* of the old stake, for every set, stake distribution and queue of changes.
THEOREM BoundaryQuorumsMeetHolds == Spec => []BoundaryQuorumsMeet
<1>1. PipelineInv /\ ChurnInv => BoundaryQuorumsMeet
  <2> SUFFICES ASSUME PipelineInv, ChurnInv, AfterTransition, enforce,
                      ActiveIds(block.set) = DOMAIN block.set,
                      NEW Q \in Quorums(block.set), NEW R \in Quorums(validators)
               PROVE  4 * SumStake(block.set, Q \cap R) > ActiveStake(block.set)
    BY DEF BoundaryQuorumsMeet
  <2> DEFINE old == block.set
             T == TotalStake(old)
             D == R \cap DOMAIN old
             x == SumStake(old, Q \cap R)
  <2>1. SetType(old) /\ SetType(validators)
    BY DEF PipelineInv, BlockInv, SetsInv, AfterTransition
  <2>2. ActiveIds(validators) = DOMAIN validators
        /\ Shifted(validators, block.set, StakeBudget(block.set))
    BY DEF ChurnInv, NobodyJailed
  <2>3. PICK up \in Nat, down \in Nat :
          up + down <= StakeBudget(old) /\ Shift(validators, old, up, down)
    BY <2>2 DEF Shifted
  <2>4. T \in Nat /\ StakeBudget(old) = T \div 16
    BY <2>1, StakeSubset DEF TotalStake, StakeBudget
  <2>5. 16 * (up + down) <= T
    <3>1. T \div 16 \in Nat /\ 16 * (T \div 16) <= T
      BY <2>4
    <3> HIDE DEF T
    <3> QED BY <2>3, <2>4, <3>1
  <2>6. Q \in SUBSET DOMAIN old /\ SumStake(old, Q) * 3 > T * 2
    BY DEF Quorums, IsQuorum, ActiveStake, TotalStake
  <2>7. R \in SUBSET DOMAIN validators /\ SumStake(validators, R) * 3 > TotalStake(validators) * 2
    BY <2>2 DEF Quorums, IsQuorum, ActiveStake, TotalStake
  <2>8. /\ SumStake(validators, R) <= SumStake(old, D) + up
        /\ TotalStake(validators) = T + up - down
    BY <2>3, <2>7 DEF Shift
  <2>9. /\ Q \cup D \in SUBSET DOMAIN old /\ D \in SUBSET DOMAIN old
        /\ Q \cap D = Q \cap R
    BY <2>6
  <2>10. /\ SumStake(old, Q \cup D) + SumStake(old, Q \cap D) = SumStake(old, Q) + SumStake(old, D)
    BY <2>1, <2>6, <2>9, StakeUnion
  <2>11. SumStake(old, Q \cup D) <= T
    BY <2>1, <2>9, StakeSubset DEF TotalStake
  <2>12. /\ SumStake(old, Q \cup D) \in Nat /\ x \in Nat
         /\ SumStake(old, Q) \in Nat /\ SumStake(old, D) \in Nat
         /\ SumStake(validators, R) \in Nat
    BY <2>1, <2>6, <2>7, <2>9, StakeSubset
  <2>13. SumStake(old, Q \cup D) + x = SumStake(old, Q) + SumStake(old, D)
    BY <2>9, <2>10
  <2> HIDE DEF x, D, T, old
  <2>14. 4 * x > T
    BY <2>4, <2>5, <2>6, <2>7, <2>8, <2>11, <2>12, <2>13
  <2> QED BY <2>14 DEF x, T, old, TotalStake, ActiveStake
<1> QED BY <1>1, PipelineInvariant, ChurnInvariant, PTL

\* However a certificate came about, it makes a block final only if it holds
\* more than five eighths of the stake of the set the block met: the budget of a
\* boundary cannot lift less than that over the two thirds the tracker asks of
\* the new set, for every set, stake distribution and queue of changes.
THEOREM FinalIsBackedHolds == Spec => FinalIsBacked
<1>1. PipelineInv /\ ChurnInv /\ [Next]_vars =>
        [(/\ block.step = "finality" /\ block.number \in DOMAIN records'
          /\ enforce /\ ActiveIds(block.set) = DOMAIN block.set
          /\ ActiveStake(block.set) # 0)
         => 8 * SumStake(block.set, block.signers \cap DOMAIN block.set)
              > 5 * ActiveStake(block.set)]_vars
  <2> DEFINE old == block.set
             T == TotalStake(old)
             R == block.signers \cap DOMAIN validators
             D == R \cap DOMAIN old
             S == block.signers \cap DOMAIN old
  <2> SUFFICES ASSUME PipelineInv, ChurnInv, Next, block.step = "finality",
                      block.number \in DOMAIN records', enforce,
                      ActiveIds(old) = DOMAIN old, ActiveStake(old) # 0
               PROVE  8 * SumStake(old, S) > 5 * ActiveStake(old)
    OBVIOUS
  <2>1. FinishCommit
    BY DEF Next, OnBlockCommitted, StartTransition, RunTransition, SlashEquivocation,
           SlashDowntime, Unjail, Reinstate, Restart, SwitchChurnMode, Fault
  <2>2. SetType(old) /\ SetType(validators)
    BY DEF PipelineInv, BlockInv, SetsInv
  <2>3. TwoThirds(SigningStake(block.signers), ActiveStake(validators))
    <3>1. block.number \notin DOMAIN records
      <4>1. block.number \in Nat \ {0} /\ Recorded = block.number - 1
        BY DEF PipelineInv, BlockInv, Recorded
      <4> QED BY <4>1 DEF PipelineInv, WindowInv
    <3>2. ~UNCHANGED trackerVars
      BY <3>1 DEF trackerVars
    <3> QED BY <2>1, <3>2 DEF FinishCommit, OnBlockFinalized, Accepts
  <2>4. /\ ActiveIds(validators) = DOMAIN validators
        /\ Shifted(validators, old, StakeBudget(old))
    <3>1. CASE IsEpochBoundary(block.number)
      BY <3>1 DEF ChurnInv, AfterTransition, NobodyJailed
    <3>2. CASE ~IsEpochBoundary(block.number)
      <4>1. validators = old
        BY <3>2 DEF PipelineInv, BlockInv
      <4>2. Shifted(old, old, 0)
        BY <2>2, NothingShifted
      <4>3. StakeBudget(old) \in Nat
        <5>1. SumStake(old, DOMAIN old) \in Nat
          BY <2>2, StakeSubset
        <5> QED BY <5>1 DEF StakeBudget
      <4>4. PICK up \in Nat, down \in Nat : up + down <= 0 /\ Shift(old, old, up, down)
        BY <4>2 DEF Shifted
      <4>5. up + down <= StakeBudget(old)
        BY <4>3, <4>4
      <4> QED BY <4>1, <4>4, <4>5 DEF Shifted
    <3> QED BY <3>1, <3>2
  <2>5. PICK up \in Nat, down \in Nat :
          up + down <= StakeBudget(old) /\ Shift(validators, old, up, down)
    BY <2>4 DEF Shifted
  <2>6. T \in Nat /\ StakeBudget(old) = T \div 16
    BY <2>2, StakeSubset DEF TotalStake, StakeBudget
  <2>7. 16 * (up + down) <= T
    <3>1. T \div 16 \in Nat /\ 16 * (T \div 16) <= T
      BY <2>6
    <3> HIDE DEF T
    <3> QED BY <2>5, <2>6, <3>1
  <2>8. ActiveStake(old) = T /\ ActiveStake(validators) = TotalStake(validators) /\ T # 0
    BY <2>4 DEF ActiveStake, TotalStake
  <2>9. SigningStake(block.signers) = SumStake(validators, R)
    BY DEF SigningStake
  <2>10. /\ SumStake(validators, R) <= SumStake(old, D) + up
         /\ TotalStake(validators) = T + up - down
    BY <2>5 DEF Shift
  <2>11. /\ SumStake(old, D) \in Nat /\ SumStake(old, S) \in Nat
         /\ SumStake(old, D) <= SumStake(old, S) /\ SumStake(validators, R) \in Nat
    <3>1. D \in SUBSET S /\ S \in SUBSET DOMAIN old /\ R \in SUBSET DOMAIN validators
      OBVIOUS
    <3> QED BY <2>2, <3>1, StakeSubset
  <2>12. \/ TotalStake(validators) = 0
         \/ SumStake(validators, R) * 3 > TotalStake(validators) * 2
    BY <2>3, <2>8, <2>9 DEF TwoThirds
  <2> HIDE DEF T, R, D, S, old
  <2>13. 8 * SumStake(old, S) > 5 * T
    BY <2>6, <2>7, <2>8, <2>10, <2>11, <2>12
  <2> QED BY <2>8, <2>13
<1> QED BY <1>1, PipelineInvariant, ChurnInvariant, PTL DEF Spec, FinalIsBacked
=============================================================================
