------------------------------- MODULE StateSync -------------------------------
(***************************************************************************)
(* Snapshot state sync: the manager of the node that is behind, and the    *)
(* peers that serve it.  Every message, answers included, is broadcast on  *)
(* the consensus topic, so each peer answers each request once and the     *)
(* answers may arrive in any order.  A peer snapshots its state every      *)
(* SNAPSHOT_INTERVAL blocks and stamps it with the time, so at least the   *)
(* first chunk of a snapshot differs from peer to peer.                    *)
(***************************************************************************)
EXTENDS Integers, FiniteSets, FiniteSetsExt

CONSTANTS
  Peers,
  MIN_TIP_AGREEMENT,
  SNAPSHOT_INTERVAL,   \* a snapshot every so many blocks (100)
  SnapshotsKept,       \* the prune(3) of register_snapshot
  TotalChunks,         \* chunks of a snapshot
  Divergent            \* the chunks whose data differ from peer to peer

ASSUME StateSyncAssumption ==
  /\ MIN_TIP_AGREEMENT \in Nat \ {0} /\ SNAPSHOT_INTERVAL \in Nat \ {0}
  /\ SnapshotsKept \in Nat \ {0} /\ TotalChunks \in Nat \ {0}

VARIABLES
  height,            \* the last block of the node
  tip,               \* the last block of its peers
  phase,             \* "none" while there is no StateSyncManager
  local_height,      \* the manager's copy of height, taken at its start
  peer_tips,         \* the tips reported, one synthetic peer id per message
  target_height,
  snapshot_meta,     \* {} or {[height, peer]}
  received_chunks,   \* index -> the peer whose chunk it is
  pending_requests,
  asks,              \* broadcast requests a peer has not yet answered
  answers,           \* answers on their way
  applied            \* history: whose chunks made up the snapshot applied last

managerVars == <<phase, local_height, peer_tips, target_height, snapshot_meta,
                 received_chunks, pending_requests>>
stateSyncVars == <<height, tip, managerVars, asks, answers, applied>>

Chunks == 0..(TotalChunks - 1)
Broadcast(kind, h, chunks) ==
  {[peer |-> p, kind |-> kind, height |-> h, chunk |-> i] : p \in Peers, i \in chunks}

NoChunks == [i \in {} |-> {}]

ManagerInit ==
  /\ phase = "none" /\ local_height = 0
  /\ peer_tips = {} /\ target_height = 0 /\ snapshot_meta = {}
  /\ received_chunks = NoChunks /\ pending_requests = {}
  /\ asks = {} /\ answers = {} /\ applied = {}

ResetManager(h) ==
  /\ local_height' = h
  /\ peer_tips' = {} /\ target_height' = 0 /\ snapshot_meta' = {}
  /\ received_chunks' = NoChunks /\ pending_requests' = {}

\* StateSyncManager::new and start, at one of the places main.rs does so.
StartStateSync ==
  /\ phase' = "discovering" /\ ResetManager(height)
  /\ asks' = asks \cup Broadcast("tip", 0, {0})
  /\ UNCHANGED <<answers, applied>>

-----------------------------------------------------------------------------
\* SyncServer::handle_request: the tip is that of the last block, a snapshot
\* is kept at the latest multiples of the interval.
Snapshots ==
  {h \in 1..tip : /\ h % SNAPSHOT_INTERVAL = 0
                  /\ tip \div SNAPSHOT_INTERVAL - h \div SNAPSHOT_INTERVAL < SnapshotsKept}

\* What distinguishes the data of one chunk from that of another peer's.
Origin(peer, i) == IF i \in Divergent THEN {peer} ELSE {}

Answer(ask) ==
  CASE ask.kind = "tip"   -> {[ask EXCEPT !.height = tip]}
    [] ask.kind = "meta"  -> IF ask.height \in Snapshots THEN {ask} ELSE {}
    [] ask.kind = "chunk" -> IF ask.height \in Snapshots THEN {ask} ELSE {}

PeerAnswers(ask) ==
  /\ ask \in asks
  /\ asks' = asks \ {ask}
  /\ answers' = answers \cup Answer(ask)
  /\ UNCHANGED <<height, tip, managerVars, applied>>

-----------------------------------------------------------------------------
Deliver(answer) ==
  /\ answer \in answers
  /\ answers' = answers \ {answer}

\* handle_tip_response: the height most often reported, the hash map's
\* iteration breaking ties, if enough messages agree on it.
Votes(tips, h) == Cardinality({t \in tips : t.height = h})
MostReported(tips) ==
  {t.height : t \in {t \in tips : \A u \in tips : Votes(tips, t.height) >= Votes(tips, u.height)}}

OnTipResponse(answer) ==
  /\ answer.kind = "tip" /\ Deliver(answer)
  /\ \/ /\ phase = "discovering"
        /\ peer_tips' = peer_tips \cup {answer}
        /\ \E best \in MostReported(peer_tips') :
             IF Votes(peer_tips', best) >= MIN_TIP_AGREEMENT /\ best > local_height
             THEN /\ target_height' = best
                  /\ phase' = "downloading"
                  /\ asks' = asks \cup Broadcast("meta", best, {0})
             ELSE UNCHANGED <<target_height, phase, asks>>
     \/ phase # "discovering" /\ UNCHANGED <<peer_tips, target_height, phase, asks>>
  /\ UNCHANGED <<height, tip, local_height, snapshot_meta, received_chunks,
                 pending_requests, applied>>

\* handle_snapshot_metadata: a (further) peer's metadata starts the download
\* over; request_next_chunks asks for everything neither received nor pending.
NotRestarted(chunks) == chunks
Restarted(chunks) == NoChunks

OnSnapshotMetadata(answer) ==
  /\ answer.kind = "meta" /\ Deliver(answer)
  /\ IF phase = "none" \/ answer.height # target_height
     THEN UNCHANGED <<snapshot_meta, received_chunks, pending_requests, asks, phase>>
     ELSE /\ phase' = "downloading"
          /\ snapshot_meta' = {[height |-> answer.height, peer |-> answer.peer]}
          /\ received_chunks' = Restarted(received_chunks)
          /\ pending_requests' = Chunks \ DOMAIN received_chunks'
          /\ asks' = asks \cup Broadcast("chunk", answer.height, pending_requests')
  /\ UNCHANGED <<height, tip, local_height, peer_tips, target_height, applied>>

\* handle_chunk_response: a chunk is taken for the data it holds, whatever
\* height it says it is for; a mismatch only forgets that it was requested.
Matches(answer, meta) ==
  answer.height = meta.height /\ Origin(answer.peer, answer.chunk) = Origin(meta.peer, answer.chunk)

WithChunk(answer) ==
  [i \in DOMAIN received_chunks \cup {answer.chunk} |->
    IF i = answer.chunk THEN Origin(answer.peer, i) ELSE received_chunks[i]]

\* No manager, no metadata yet, or other data than the metadata announces.
OnChunkMismatch(answer) ==
  /\ answer.kind = "chunk" /\ Deliver(answer)
  /\ \A meta \in snapshot_meta : ~Matches(answer, meta)
  /\ pending_requests' = IF snapshot_meta = {} THEN pending_requests
                         ELSE pending_requests \ {answer.chunk}
  /\ UNCHANGED <<height, tip, phase, local_height, peer_tips, target_height,
                 snapshot_meta, received_chunks, asks, applied>>

OnChunk(answer) ==
  /\ answer.kind = "chunk" /\ Deliver(answer)
  /\ \E meta \in snapshot_meta : Matches(answer, meta)
  /\ received_chunks' = WithChunk(answer)
  /\ DOMAIN received_chunks' # Chunks
  /\ LET outstanding == pending_requests \ {answer.chunk}
         next == Chunks \ (DOMAIN received_chunks' \cup outstanding)
     IN /\ pending_requests' = outstanding \cup next
        /\ asks' = asks \cup Broadcast("chunk", target_height, next)
  /\ UNCHANGED <<height, tip, phase, local_height, peer_tips, target_height,
                 snapshot_meta, applied>>

\* The last chunk: assemble_and_verify, and in main.rs ApplySnapshot: the
\* state is replaced, set_height, or the snapshot is refused and rolled back
\* (deserialize_snapshot, SnapshotApplier::apply); the manager is dropped.
OnLastChunk(answer) ==
  /\ answer.kind = "chunk" /\ Deliver(answer)
  /\ \E meta \in snapshot_meta : Matches(answer, meta)
  /\ DOMAIN WithChunk(answer) = Chunks
  /\ \/ /\ applied' = UNION {WithChunk(answer)[i] : i \in Chunks}
        /\ height' = target_height
     \/ UNCHANGED <<applied, height>>
  /\ phase' = "none" /\ ResetManager(0)
  /\ UNCHANGED <<tip, asks>>

\* Every snapshot that is applied was assembled from the chunks of one peer's
\* snapshot, although the chunks of several arrive, and further metadata
\* starts the download over (handle_snapshot_metadata, handle_chunk_response).
SnapshotWhole == Cardinality(applied) <= 1
=============================================================================
