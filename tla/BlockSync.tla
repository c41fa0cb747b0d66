------------------------------- MODULE BlockSync -------------------------------
(***************************************************************************)
(* How a validator that is behind catches up: the branches of the node's   *)
(* main loop that receive gossiped blocks, synced blocks, peer tips and    *)
(* consensus messages, and the network task that sends one block request   *)
(* at a time and serves [from, to).  The two channels from the network     *)
(* task to the main loop (blocks, tips) are read in any order.  Snapshot   *)
(* state sync (StateSync) runs beside it and shares sync_in_flight.        *)
(***************************************************************************)
EXTENDS StateSync, Sequences

CONSTANTS
  InitialTip,            \* the chain of the peers when the node starts
  MaxTip,                \* bound on the chain
  MAX_SYNC_BATCH,        \* blocks per request
  PendingCap,            \* cap of pending_blocks on the gossip path (500)
  GossipGap,             \* gap at which gossip starts a state sync (1000)
  STATE_SYNC_THRESHOLD,  \* gap at which a tip or a consensus message does
  KeysKnown,             \* the node has the signers' keys from the start
  MaxRequests,           \* bound on the requests when one more is allowed
  MaxTips,               \* capacity of the channel of tips
  MaxProbes,             \* bound on the peer connections
  MaxFailures            \* bound on the requests that fail

ASSUME SyncAssumption ==
  /\ InitialTip \in Nat /\ MaxTip \in Nat /\ InitialTip <= MaxTip
  /\ MAX_SYNC_BATCH \in Nat

VARIABLES
  pending_blocks,   \* heights of the queued blocks
  sync_in_flight,
  requests,         \* requests the network task has sent: [from, to]
  sync_blocks,      \* channel of responses: sets of heights
  tips,             \* channel of peer tips
  proposal,         \* the engine's round holds a proposal for its height
  keys,             \* the signers' keys are known (KeyAnnounce has arrived)
  unverified,       \* history: blocks applied although nothing was verified
  probes, failures  \* bounds

loopVars == <<pending_blocks, sync_in_flight, requests, sync_blocks, tips,
              proposal, keys, unverified, probes, failures>>
vars == <<stateSyncVars, loopVars>>

Init ==
  /\ height = 0 /\ tip = InitialTip
  /\ ManagerInit
  /\ pending_blocks = {} /\ sync_in_flight = FALSE
  /\ requests = <<>> /\ sync_blocks = <<>> /\ tips = <<>>
  /\ proposal = FALSE /\ keys = KeysKnown
  /\ unverified = {}
  /\ probes = 0 /\ failures = 0

-----------------------------------------------------------------------------
\* The chain of the peers, and the node's part in it while it is up to date.
ChainGrows ==
  /\ tip < MaxTip
  /\ tip' = tip + 1
  /\ UNCHANGED <<height, managerVars, asks, answers, applied, loopVars>>

ReceiveProposal ==
  /\ height = tip /\ ~proposal
  /\ proposal' = TRUE
  /\ UNCHANGED <<stateSyncVars, pending_blocks, sync_in_flight, requests, sync_blocks,
                 tips, keys, unverified, probes, failures>>

\* Precommits for the proposal complete at this node too.
CommitBlock ==
  /\ proposal /\ height < MaxTip /\ tip - height \in {0, 1}
  /\ height' = height + 1 /\ tip' = height' \* the peers commit with it or did before
  /\ proposal' = FALSE
  /\ UNCHANGED <<managerVars, asks, answers, applied, pending_blocks, sync_in_flight,
                 requests, sync_blocks, tips, keys, unverified, probes, failures>>

KeyAnnounce ==
  /\ ~keys /\ keys' = TRUE
  /\ UNCHANGED <<stateSyncVars, pending_blocks, sync_in_flight, requests, sync_blocks,
                 tips, proposal, unverified, probes, failures>>

-----------------------------------------------------------------------------
\* The network task: it sends a request for [from, to) to one peer, ...
CappedBefore(from, to) ==
  [from |-> from, to |-> IF to > from + MAX_SYNC_BATCH THEN from + MAX_SYNC_BATCH ELSE to - 1]
Capped(from, to) ==
  [from |-> from, to |-> IF to > from + MAX_SYNC_BATCH THEN from + MAX_SYNC_BATCH ELSE to]

Request(from, to) == requests' = Append(requests, Capped(from, to))

UnderWay == Len(requests) + Len(sync_blocks)
Without(seq, i) == SubSeq(seq, 1, i - 1) \o SubSeq(seq, i + 1, Len(seq))

\* ... probes the tip of a new connection, ...
PeerConnects ==
  /\ probes < MaxProbes /\ UnderWay < MaxRequests
  /\ probes' = probes + 1
  /\ Request(0, 0)
  /\ UNCHANGED <<stateSyncVars, pending_blocks, sync_in_flight, sync_blocks, tips,
                 proposal, keys, unverified, failures>>

\* ... passes on the answer, an empty one too, and the peer's tip, ...
Served(request) == {n \in request.from..(request.to - 1) : n \in 1..tip}
Quiet(channel, blocks) == IF blocks = {} THEN channel ELSE Append(channel, blocks)
Notify(channel, blocks) == Append(channel, blocks)

Respond(i) ==
  /\ i \in DOMAIN requests /\ Len(tips) < MaxTips
  /\ requests' = Without(requests, i)
  /\ sync_blocks' = Notify(sync_blocks, Served(requests[i]))
  /\ tips' = Append(tips, tip)
  /\ UNCHANGED <<stateSyncVars, pending_blocks, sync_in_flight, proposal, keys,
                 unverified, probes, failures>>

\* ... and only logs a request that failed, or that no peer is there for.
OutboundFailure(i) ==
  /\ i \in DOMAIN requests /\ failures < MaxFailures
  /\ failures' = failures + 1
  /\ requests' = Without(requests, i)
  /\ UNCHANGED <<stateSyncVars, pending_blocks, sync_in_flight, sync_blocks, tips,
                 proposal, keys, unverified, probes>>

-----------------------------------------------------------------------------
\* The main loop.  A gossiped block that is ahead is queued; beyond the cap the
\* lowest heights give way.
Queue(n) ==
  LET all == pending_blocks \cup {n} IN
  pending_blocks' = {m \in all : Cardinality({k \in all : k > m}) < PendingCap}

StartOrKeep(start) ==
  IF start THEN StartStateSync /\ UNCHANGED <<height, tip>>
           ELSE UNCHANGED stateSyncVars

GossipAhead(n) ==
  /\ n \in (height + 2)..tip
  /\ Queue(n)
  /\ IF sync_in_flight THEN UNCHANGED <<stateSyncVars, requests, sync_in_flight>>
     ELSE /\ StartOrKeep(n - height > GossipGap /\ phase = "none")
          /\ Request(height + 1, n - 1)
          /\ sync_in_flight' = TRUE
  /\ UNCHANGED <<sync_blocks, tips, proposal, keys, unverified, probes, failures>>

\* The next block is left to consensus, but syncs may be requested again.
GossipNext ==
  /\ height + 1 <= tip /\ sync_in_flight
  /\ UnderWay <= MaxRequests
  /\ sync_in_flight' = FALSE
  /\ UNCHANGED <<stateSyncVars, pending_blocks, requests, sync_blocks, tips, proposal,
                 keys, unverified, probes, failures>>

\* Synced blocks: in order, those that extend the chain are verified and
\* applied if the signers' keys are known and queued if not; then the queue is
\* drained, verifying what can be verified; then more is requested if a gap
\* remains.
Reach(h, blocks) == Max({n \in h..MaxTip : (h + 1)..n \subseteq blocks})

ReceiveSyncBlocks ==
  /\ sync_blocks # <<>>
  /\ sync_blocks' = Tail(sync_blocks)
  /\ LET blocks == Head(sync_blocks)
         after  == IF keys THEN Reach(height, blocks) ELSE height
         queued == pending_blocks \cup {n \in blocks : n > after}
         final  == Reach(after, queued)
         left   == queued \ ((after + 1)..final)
         more   == left # {} /\ Min(left) > final + 1
     IN /\ height' = IF blocks = {} THEN height ELSE final
        /\ pending_blocks' = IF blocks = {} THEN pending_blocks ELSE left
        /\ unverified' = IF blocks = {} \/ keys THEN unverified
                         ELSE unverified \cup ((after + 1)..final)
        /\ proposal' = (proposal /\ height' = height)
        /\ sync_in_flight' = (blocks # {} /\ more)
        /\ IF blocks # {} /\ more THEN Request(final + 1, Min(left) - 1)
           ELSE UNCHANGED requests
  /\ UNCHANGED <<tip, managerVars, asks, answers, applied, tips, keys, probes, failures>>

\* A request for what is missing up to a height somebody reported, or a state
\* sync when that is too far away.
CatchUp(from, to, gap) ==
  /\ IF gap > STATE_SYNC_THRESHOLD /\ phase = "none"
     THEN StartStateSync /\ UNCHANGED <<height, tip, requests>>
     ELSE Request(from, to) /\ UNCHANGED stateSyncVars
  /\ sync_in_flight' = TRUE

ReceiveTip ==
  /\ tips # <<>>
  /\ tips' = Tail(tips)
  /\ IF Head(tips) > height /\ ~sync_in_flight
     THEN CatchUp(height + 1, Head(tips), Head(tips) - height)
     ELSE UNCHANGED <<stateSyncVars, requests, sync_in_flight>>
  /\ UNCHANGED <<pending_blocks, sync_blocks, proposal, keys, unverified, probes, failures>>

\* A consensus message of the peers' height: RequestSync if it is more than one
\* ahead of the engine's, or one ahead while the engine sits on a proposal.
BehindStuck(h, msg) == msg = h + 1 /\ proposal
Behind(h, msg) == msg > h + 1 \/ (msg = h + 1 /\ proposal)

ReceiveConsensusMessage ==
  /\ Behind(height + 1, tip + 1) /\ ~sync_in_flight
  /\ CatchUp(height + 1, tip + 1, tip - height)
  /\ UNCHANGED <<pending_blocks, sync_blocks, tips, proposal, keys, unverified, probes, failures>>

-----------------------------------------------------------------------------
\* Snapshot state sync inside the main loop.
StateSyncMessage ==
  \/ \E ask \in asks : PeerAnswers(ask) /\ UNCHANGED loopVars
  \/ \E answer \in answers :
       \/ OnTipResponse(answer) /\ UNCHANGED loopVars
       \/ OnSnapshotMetadata(answer) /\ UNCHANGED loopVars
       \/ OnChunkMismatch(answer) /\ UNCHANGED loopVars
       \/ OnChunk(answer) /\ UNCHANGED loopVars
       \/ /\ OnLastChunk(answer)
          /\ height' # height \/ UnderWay <= MaxRequests  \* bound on refused ones
          /\ sync_in_flight' = FALSE /\ proposal' = FALSE
          /\ UNCHANGED <<pending_blocks, requests, sync_blocks, tips, keys, unverified,
                         probes, failures>>

LoopStep ==
  \/ ReceiveSyncBlocks
  \/ ReceiveTip
  \/ ReceiveConsensusMessage
  \/ StateSyncMessage

Next ==
  \/ ChainGrows \/ ReceiveProposal \/ CommitBlock \/ KeyAnnounce
  \/ PeerConnects
  \/ \E i \in DOMAIN requests : Respond(i) \/ OutboundFailure(i)
  \/ \E n \in 1..tip : GossipAhead(n)
  \/ GossipNext
  \/ LoopStep

Spec == Init /\ [][Next]_vars

\* The main loop is never idle while a channel holds something, peers answer,
\* and they go on voting for their height, so consensus messages keep coming.
Fairness ==
  /\ WF_vars(ReceiveSyncBlocks) /\ WF_vars(ReceiveTip)
  /\ SF_vars(ReceiveConsensusMessage)
  /\ WF_vars(\E i \in DOMAIN requests : Respond(i))

FairSpec == Spec /\ Fairness

\* ... and the messages of a state sync are answered and delivered.
FairStateSync == FairSpec /\ WF_vars(StateSyncMessage)

\* Bound: a run ends when a request fails.
BeforeFailure == failures = 0

-----------------------------------------------------------------------------
TypeOK ==
  /\ height \in 0..MaxTip /\ tip \in height..MaxTip
  /\ pending_blocks \subseteq 1..tip
  /\ \A i \in DOMAIN requests : requests[i].from <= requests[i].to
  /\ phase \in {"none", "discovering", "downloading"}

\* sync_in_flight is never left set for nothing: while it is, a request, its
\* response or a state sync is still under way, ...
FlagCleared ==
  sync_in_flight => requests # <<>> \/ sync_blocks # <<>> \/ phase # "none"

\* ... as long as no request has failed: every response notifies the main loop,
\* empty ones too, and a probe or the next block only clears the flag early.
FlagHasCause == failures = 0 => FlagCleared

\* Unless a request failed or a state sync is under way, the node comes to
\* within one block of its peers again and again, whatever is gossiped, queued,
\* evicted and requested meanwhile.
KeepsUp == []<>(height + 1 >= tip \/ phase # "none" \/ failures > 0)

\* ... and reaches their tip.
CatchesUp == []<>(height = tip \/ phase # "none")

\* A state sync that was started ends.
StateSyncEnds == (phase # "none") ~> (phase = "none")

\* The sync path never applies a block whose certificate it did not verify.
AppliedVerified == unverified = {}

\* The height of the node never falls.
HeightNeverFalls == [][height' >= height]_vars
=============================================================================
