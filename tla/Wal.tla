---------------------------------- MODULE Wal ----------------------------------
(***************************************************************************)
(* The write-ahead log: one BEGIN entry before a block is applied, one     *)
(* COMMIT entry after it, each written in six writes and one sync.  A      *)
(* crash keeps what was synced and any prefix of what was written since.   *)
(* The caller is external (the log is not wired into the node): it begins  *)
(* and commits one block at a time, compacts up to its last committed      *)
(* block, and after a crash opens the log, recovers what was begun and not *)
(* committed, and truncates the log.                                       *)
(***************************************************************************)
EXTENDS Integers, Sequences, FiniteSets, FiniteSetsExt, Collections

CONSTANTS
  MaxHeight,        \* bound on the blocks of a run
  MaxCrashes,       \* bound on its crashes
  AlwaysTruncates   \* the caller truncates when there was nothing to recover too

ASSUME WalAssumption ==
  MaxHeight \in Nat /\ MaxCrashes \in Nat /\ AlwaysTruncates \in BOOLEAN

VARIABLES
  magic,      \* the first eight bytes: "ok", "none" (an empty file), "part"
  file,       \* the synced entries
  writing,    \* entries written and not yet synced
  call,       \* the call under way: "none", "begin", "commit", "compact"
  last_committed_height,
  node,       \* "up", "down", "opened" or "failed" (open returned an error)
  next,       \* the caller's next block
  begun,      \* blocks whose begin_block returned and whose commit was not called
  doubtful,   \* blocks whose begin or commit a crash interrupted
  compacted,  \* a crash interrupted compact
  crashes

walVars == <<magic, file, writing, call, last_committed_height, node, next,
             begun, doubtful, compacted, crashes>>

\* An entry is whole, or a crash left a part of it: all but the marker byte
\* ("unmarked"), or less ("torn").
Entry(kind, height, part) == [kind |-> kind, height |-> height, part |-> part]

WalInit ==
  /\ magic = "ok" /\ file = <<>> /\ writing = <<>> /\ call = "none"
  /\ last_committed_height = 0 /\ node = "up" /\ next = 1
  /\ begun = {} /\ doubtful = {} /\ compacted = FALSE /\ crashes = 0

-----------------------------------------------------------------------------
\* read_all_entries stops at the first entry that is not whole.  An unmarked
\* one takes the first byte of what follows, the low byte of its height, for
\* its marker; from there on nothing has the right checksum.
WholePrefix(entries) ==
  {i \in DOMAIN entries : \A j \in 1..i : entries[j].part = "whole"}

Misread(entries, i) ==
  Entry(IF entries[i + 1].height % 256 = 1 THEN "commit" ELSE "begin",
        entries[i].height, "whole")

ReadAllEntries(entries) ==
  LET n == Cardinality(WholePrefix(entries)) IN
  IF n + 1 < Len(entries) /\ entries[n + 1].part = "unmarked"
  THEN Append(SubSeq(entries, 1, n), Misread(entries, n + 1))
  ELSE SubSeq(entries, 1, n)

HeightsOf(entries, kind) ==
  {entries[i].height : i \in {j \in DOMAIN entries : entries[j].kind = kind}}

\* recover_uncommitted
BeginsOnly(entries) == HeightsOf(entries, "begin")
RecoverUncommitted(entries) ==
  HeightsOf(entries, "begin") \ HeightsOf(entries, "commit")

\* scan_last_committed: the last COMMIT entry, 0 for none.
ScanLastCommitted(entries) ==
  LET commits == {i \in DOMAIN entries : entries[i].kind = "commit"} IN
  IF commits = {} THEN 0 ELSE entries[Max(commits)].height

-----------------------------------------------------------------------------
Append1(kind, height) ==
  /\ node = "up" /\ call = "none"
  /\ writing' = <<Entry(kind, height, "whole")>>
  /\ call' = kind
  /\ UNCHANGED <<magic, file, last_committed_height, node, next, doubtful, compacted,
                 crashes>>

\* begin_block and commit_block up to their sync_all, which ends the call.
BeginBlock ==
  /\ begun = {} /\ next <= MaxHeight
  /\ Append1("begin", next)
  /\ UNCHANGED begun

CommitBlock ==
  /\ begun # {}
  /\ Append1("commit", next)
  /\ begun' = {}

Synced(kind) ==
  /\ call = kind
  /\ file' = file \o writing
  /\ writing' = <<>> /\ call' = "none"
  /\ UNCHANGED <<magic, node, doubtful, compacted, crashes>>

BeginSynced ==
  /\ Synced("begin")
  /\ begun' = {next}
  /\ UNCHANGED <<last_committed_height, next>>

CommitSynced ==
  /\ Synced("commit")
  /\ last_committed_height' = next
  /\ next' = next + 1
  /\ UNCHANGED begun

\* compact: the file is emptied, and the magic and the entries that remain are
\* written anew before one sync_all.
NoneRemain(entries, upto) == <<>>
Remaining(entries, upto) ==
  Selected(entries, {i \in DOMAIN entries : entries[i].height > upto})

Compact ==
  /\ node = "up" /\ call = "none" /\ last_committed_height > 0
  /\ writing' = Remaining(ReadAllEntries(file), last_committed_height)
  /\ call' = "compact"
  /\ UNCHANGED <<magic, file, last_committed_height, node, next, begun, doubtful,
                 compacted, crashes>>

CompactSynced ==
  /\ call = "compact"
  /\ file' = writing
  /\ writing' = <<>> /\ call' = "none"
  /\ UNCHANGED <<magic, last_committed_height, node, next, begun, doubtful, compacted,
                 crashes>>

-----------------------------------------------------------------------------
\* What a crash may leave of the entries written since the last sync.
Cut(entries, n, part) == [SubSeq(entries, 1, n) EXCEPT ![n].part = part]
Cuts(entries) ==
  {SubSeq(entries, 1, n) : n \in 0..Len(entries)} \cup
  {Cut(entries, n, part) : n \in 1..Len(entries), part \in {"unmarked", "torn"}}

AfterCrash ==
  IF call = "compact"
  THEN {[magic |-> "ok", file |-> file]} \cup
       {[magic |-> m, file |-> <<>>] : m \in {"none", "part"}} \cup
       {[magic |-> "ok", file |-> cut] : cut \in Cuts(writing)}
  ELSE {[magic |-> magic, file |-> file \o cut] : cut \in Cuts(writing)}

\* At any time, a restart included.
Crash ==
  /\ node \in {"up", "opened"} /\ crashes < MaxCrashes
  /\ \E left \in AfterCrash : magic' = left.magic /\ file' = left.file
  /\ node' = "down"
  /\ doubtful' = IF call \in {"begin", "commit"} THEN doubtful \cup {next} ELSE doubtful
  /\ compacted' = (compacted \/ call = "compact")
  /\ writing' = <<>> /\ call' = "none"
  /\ crashes' = crashes + 1
  /\ UNCHANGED <<last_committed_height, next, begun>>

\* open: an empty file gets its magic, a file without the magic is refused, and
\* the end of the file is where the next entry goes, whatever was read.
Open ==
  /\ node = "down"
  /\ IF magic = "part"
     THEN node' = "failed" /\ UNCHANGED <<magic, last_committed_height>>
     ELSE /\ node' = "opened" /\ magic' = "ok"
          /\ last_committed_height' = ScanLastCommitted(ReadAllEntries(file))
  /\ UNCHANGED <<file, writing, call, next, begun, doubtful, compacted, crashes>>

\* The caller rolls back what was begun and not committed, and goes on; and
\* truncate_after_recovery.
Recover ==
  /\ node = "opened"
  /\ LET entries == ReadAllEntries(file)
         lost    == RecoverUncommitted(entries)
     IN /\ next' = IF next \in HeightsOf(entries, "commit") THEN next + 1 ELSE next
        /\ file' = IF AlwaysTruncates \/ lost # {} THEN <<>> ELSE file
  /\ node' = "up"
  /\ begun' = {} /\ doubtful' = {} /\ compacted' = FALSE
  /\ UNCHANGED <<magic, writing, call, last_committed_height, crashes>>

WalNext ==
  \/ BeginBlock \/ BeginSynced \/ CommitBlock \/ CommitSynced
  \/ Compact \/ CompactSynced
  \/ Crash \/ Open \/ Recover

WalSpec == WalInit /\ [][WalNext]_walVars

-----------------------------------------------------------------------------
\* What the log tells after a crash is what happened: every block that was
\* begun and not committed is recovered, and no other than one whose begin or
\* commit the crash interrupted.  A crash inside compact, which empties the
\* file before it is written anew, may lose the block that was begun or leave
\* a file that open refuses; nothing else may.
RecoveryExact ==
  /\ node = "opened" =>
       LET recovered == RecoverUncommitted(ReadAllEntries(file)) IN
       /\ recovered \subseteq begun \cup doubtful
       /\ begun \subseteq recovered \/ compacted
  /\ node = "failed" => compacted
================================================================================
