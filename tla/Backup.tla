------------------------------- MODULE Backup -------------------------------
(***************************************************************************)
(* The backup command: run_backup_once of commands/backup.rs, the chunk    *)
(* stager and manifest replacement below it, and the pending-operation     *)
(* tables and recovery of StateStore in storage.rs.                        *)
(*                                                                         *)
(* Several processes may run the command on one archive.  Each takes the   *)
(* archive's file lock, recovers what an earlier process left behind,      *)
(* scans every session file from its checkpoint, and publishes what is new *)
(* in four durable moves: pending rows in SQLite, chunk files, the         *)
(* manifest, and the SQLite commit that makes the records skippable.  A    *)
(* process may fail or be killed between any two of them, and the machine  *)
(* may lose power.                                                         *)
(*                                                                         *)
(* A source is the sequence of its complete lines and an offset counts     *)
(* lines.  A record is named by source, offset and line hash, which is what*)
(* its id hashes.  A chunk file is either absent or intact, because its    *)
(* bytes are synced before it gets its final name, so only its name is     *)
(* kept.                                                                   *)
(***************************************************************************)
EXTENDS Integers, Sequences, FiniteSets

CONSTANTS
    Proc,             \* processes that may run the backup command
    Source,           \* session files
    Text,             \* line contents, by hash
    OpId,             \* operation ids: a random id is one that nothing uses
    None,             \* no process, no source, no operation
    MaxLines,         \* bound: longest session file, in lines
    PowerLossAllowed, \* whether the machine may lose power
    TruncateAllowed   \* whether a session file may be cut back

ASSUME NoneAssumption == None \notin Proc \cup Source \cup OpId
ASSUME BoundAssumption == MaxLines \in Nat
ASSUME SwitchAssumption == {PowerLossAllowed, TruncateAllowed} \subseteq BOOLEAN

VARIABLES
    content,   \* content[s]: complete lines of session file s
    lock,      \* holder of state/backup.lock, or None
    (* SQLite, every change one transaction *)
    ckpt,      \* checkpoints: lines of s already handled (a missing row is 0)
    seen,      \* seen_ids
    ops,       \* pending_backup_ops
    pSeen,     \* pending_backup_seen_ids of each operation
    pCkpt,     \* pending_backup_checkpoints of each operation
    pLines,    \* pending_backup_manifest_entries of each operation, in order
    (* archive files as processes see them, and as a power loss leaves them *)
    chunks, manifest, dChunks, dManifest,
    (* locals of run_backup_once *)
    pc,
    op,        \* the operation the process works on
    queue,     \* operations still to recover
    scan,      \* the scan of the sources: see ScanState
    staged,    \* chunks staged in tmp/, each the set of its records
    cur,       \* records collected for the next chunk
    lines      \* manifest lines to append

sqlVars   == <<ckpt, seen, ops, pSeen, pCkpt, pLines>>
diskVars  == <<chunks, manifest, dChunks, dManifest>>
localVars == <<pc, op, queue, scan, staged, cur, lines>>
vars == <<content, lock, sqlVars, diskVars, localVars>>

-----------------------------------------------------------------------------
Record  == Source \X (1..MaxLines) \X Text
ChunkId == OpId \X (Nat \ {0})

\* prev_hash of the first line, "-" in the code.
Genesis == <<>>

\* The hash of a line is as unique as its chunk id, which it covers, so prev
\* names the chunk of the line before.
Line == [chunk : ChunkId, prev : ChunkId \cup {Genesis}, recs : SUBSET Record]

\* No row for a source; also the snapshot of a file that is not open yet.
NoRow  == -1
NoRows == [s \in Source |-> NoRow]
Rows   == [Source -> {NoRow} \cup (0..MaxLines)]

\* todo: sources left; src: the one being read; pos, snap: next line and size
\* snapshot of src; upd: checkpoint_updates.
ScanState == [todo : SUBSET Source, src : Source \cup {None},
              pos : 0..MaxLines, snap : {NoRow} \cup (0..MaxLines), upd : Rows]
NoScan == [todo |-> {}, src |-> None, pos |-> 0, snap |-> NoRow, upd |-> NoRows]

Elems(f) == {f[i] : i \in DOMAIN f}

LeastOf(m, n) == IF m <= n THEN m ELSE n

ChunksOf(ls) == {l.chunk : l \in Elems(ls)}
RecsOf(ls)   == UNION {l.recs : l \in Elems(ls)}

LastChunk(m) == IF m = <<>> THEN Genesis ELSE m[Len(m)].chunk

\* An id that occurs in no row, no file name and no manifest line.
Fresh(o) == /\ o \notin ops
            /\ \A c \in chunks \cup dChunks : c[1] # o
            /\ \A l \in Elems(manifest) \cup Elems(dManifest) : l.chunk[1] # o
            /\ \A p \in Proc : op[p] # o

\* Mutated: rows that were not staged clear the table's.
UpsertEveryRow(table, rows) == rows

\* Applying staged checkpoint rows to the table.
Upsert(table, rows) ==
    [s \in Source |-> IF rows[s] = NoRow THEN table[s] ELSE rows[s]]

\* Mutated: prev_hash is not moved on from line to line.
UnchainedLines(o, batch, prev0) ==
    [k \in 1..Len(batch) |-> [chunk |-> <<o, k>>, prev |-> prev0, recs |-> batch[k]]]

\* The manifest lines for a run's staged chunks, chained to line prev0.
ManifestLines(o, batch, prev0) ==
    [k \in 1..Len(batch) |-> [chunk |-> <<o, k>>,
                              prev  |-> IF k = 1 THEN prev0 ELSE <<o, k - 1>>,
                              recs  |-> batch[k]]]

-----------------------------------------------------------------------------
Init ==
    /\ content = [s \in Source |-> <<>>]
    /\ lock = None
    /\ ckpt = [s \in Source |-> 0]
    /\ seen = {}
    /\ ops = {}
    /\ pSeen = [o \in OpId |-> {}]
    /\ pCkpt = [o \in OpId |-> NoRows]
    /\ pLines = [o \in OpId |-> <<>>]
    /\ chunks = {} /\ dChunks = {}
    /\ manifest = <<>> /\ dManifest = <<>>
    /\ pc = [p \in Proc |-> "idle"]
    /\ op = [p \in Proc |-> None]
    /\ queue = [p \in Proc |-> {}]
    /\ scan = [p \in Proc |-> NoScan]
    /\ staged = [p \in Proc |-> <<>>]
    /\ cur = [p \in Proc |-> {}]
    /\ lines = [p \in Proc |-> <<>>]

Goto(p, label) == pc' = [pc EXCEPT ![p] = label]

\* The process returns or dies: its locals are gone and the lock is free.
Exit(p) ==
    /\ lock' = IF lock = p THEN None ELSE lock
    /\ Goto(p, "idle")
    /\ op' = [op EXCEPT ![p] = None]
    /\ queue' = [queue EXCEPT ![p] = {}]
    /\ scan' = [scan EXCEPT ![p] = NoScan]
    /\ staged' = [staged EXCEPT ![p] = <<>>]
    /\ cur' = [cur EXCEPT ![p] = {}]
    /\ lines' = [lines EXCEPT ![p] = <<>>]

\* Mutated: a finished operation keeps its rows.
KeepRows(o) == UNCHANGED <<ops, pSeen, pCkpt, pLines>>

\* delete_pending_backup_rows
DeleteRows(o) ==
    /\ ops' = ops \ {o}
    /\ pSeen' = [pSeen EXCEPT ![o] = {}]
    /\ pCkpt' = [pCkpt EXCEPT ![o] = NoRows]
    /\ pLines' = [pLines EXCEPT ![o] = <<>>]

\* Mutated: the checkpoints are forgotten.
CommitSeenOnly(o) ==
    /\ seen' = seen \cup pSeen[o]
    /\ DeleteRows(o)
    /\ UNCHANGED ckpt

\* commit_pending_backup_state: one transaction.
CommitRows(o) ==
    /\ ckpt' = Upsert(ckpt, pCkpt[o])
    /\ seen' = seen \cup pSeen[o]
    /\ DeleteRows(o)

\* Mutated: the chunk names are not synced.
SyncManifestOnly ==
    /\ dManifest' = manifest
    /\ UNCHANGED <<chunks, manifest, dChunks>>

\* sync_archive_metadata.  A power loss between its syncs leaves what a power
\* loss before it may leave, so it is one step.
SyncFiles ==
    /\ dChunks' = chunks
    /\ dManifest' = manifest
    /\ UNCHANGED <<chunks, manifest>>

-----------------------------------------------------------------------------
(* Lock and recovery *)

\* Mutated: no lock.
LockFreeDropped == TRUE

\* Take backup.lock (a blocking lock) and read the pending operation ids.
LockFree == lock = None

LockArchive(p) ==
    /\ pc[p] = "idle"
    /\ LockFree
    /\ lock' = p
    /\ Goto(p, "recover")
    /\ queue' = [queue EXCEPT ![p] = ops]
    /\ UNCHANGED <<content, sqlVars, diskVars, op, scan, staged, cur, lines>>

\* Mutated: recovery always discards.
ResumableNever(o) == FALSE

\* Whether an operation got as far as replacing the manifest.
Resumable(o) == pLines[o] # <<>> /\ Elems(pLines[o]) \subseteq Elems(manifest)

\* Mutated: the chunks are left behind.
AbandonedIgnored(o) == {}

\* Mutated: waits for chunks that are gone already.
AbandonedAgain(o) == {l.chunk : l \in Elems(pLines[o]) \ Elems(manifest)}

\* discard_pending_backup removes the chunk of every line the manifest lacks.
Abandoned(o) ==
    {l.chunk : l \in Elems(pLines[o]) \ Elems(manifest)} \cap chunks

RecoverDiscardChunk(p, o) ==
    /\ pc[p] = "recover" /\ o \in queue[p] /\ ~ Resumable(o)
    /\ \E c \in Abandoned(o) : chunks' = chunks \ {c}
    /\ UNCHANGED <<content, lock, sqlVars, manifest, dChunks, dManifest, localVars>>

RecoverDiscardRows(p, o) ==
    /\ pc[p] = "recover" /\ o \in queue[p] /\ ~ Resumable(o)
    /\ Abandoned(o) = {}
    /\ DeleteRows(o)
    /\ queue' = [queue EXCEPT ![p] = @ \ {o}]
    /\ UNCHANGED <<content, lock, ckpt, seen, diskVars, pc, op, scan, staged,
                   cur, lines>>

\* Mutated: the chunks are not read back.
ReadableAssumed(o) == TRUE

\* Every chunk of the operation can be read back with the hash its line gives.
Readable(o) == ChunksOf(pLines[o]) \subseteq chunks

\* The chunks are synced, then the names.
RecoverSync(p, o) ==
    /\ pc[p] = "recover" /\ o \in queue[p] /\ Resumable(o)
    /\ Readable(o)
    /\ SyncFiles
    /\ op' = [op EXCEPT ![p] = o]
    /\ Goto(p, "recommit")
    /\ UNCHANGED <<content, lock, sqlVars, queue, scan, staged, cur, lines>>

RecoverCommit(p) ==
    /\ pc[p] = "recommit"
    /\ CommitRows(op[p])
    /\ queue' = [queue EXCEPT ![p] = @ \ {op[p]}]
    /\ op' = [op EXCEPT ![p] = None]
    /\ Goto(p, "recover")
    /\ UNCHANGED <<content, lock, diskVars, scan, staged, cur, lines>>

\* A listed chunk is missing: the command fails and leaves the rows pending.
RecoverMissingChunk(p, o) ==
    /\ pc[p] = "recover" /\ o \in queue[p] /\ Resumable(o)
    /\ ~ Readable(o)
    /\ Exit(p)
    /\ UNCHANGED <<content, sqlVars, diskVars>>

\* discover_sources: every session file that exists, once; a directory it cannot
\* read is an error.  An empty session file may also be a missing one.
Discovered(found) == \A s \in Source \ found : content[s] = <<>>

\* begin_pending_backup, then discover_sources.
BeginBackup(p, o) ==
    /\ pc[p] = "recover" /\ queue[p] = {}
    /\ Fresh(o)
    /\ ops' = ops \cup {o}
    /\ pSeen' = [pSeen EXCEPT ![o] = {}]
    /\ pCkpt' = [pCkpt EXCEPT ![o] = NoRows]
    /\ pLines' = [pLines EXCEPT ![o] = <<>>]
    /\ op' = [op EXCEPT ![p] = o]
    /\ \E found \in SUBSET Source :
         Discovered(found) /\ scan' = [scan EXCEPT ![p].todo = found]
    /\ Goto(p, "scan")
    /\ UNCHANGED <<content, lock, ckpt, seen, diskVars, queue, staged, cur, lines>>

-----------------------------------------------------------------------------
(* The scan of the sources *)

\* Where reading starts, given the size the first stat returned: a checkpoint
\* beyond the end of the file rewinds to its beginning.
StartOffset(s, size) == IF ckpt[s] <= size THEN ckpt[s] ELSE 0

StatSource(p, s) ==
    /\ pc[p] = "scan" /\ scan[p].src = None /\ s \in scan[p].todo
    /\ scan' = [scan EXCEPT ![p] =
                  [todo |-> @.todo \ {s}, src |-> s, snap |-> NoRow, upd |-> @.upd,
                   pos |-> StartOffset(s, Len(content[s]))]]
    /\ UNCHANGED <<content, lock, sqlVars, diskVars, pc, op, queue, staged, cur, lines>>

\* stream_records_from_source takes a size snapshot of its own.
OpenSource(p) ==
    /\ pc[p] = "scan" /\ scan[p].src # None /\ scan[p].snap = NoRow
    /\ LET size == Len(content[scan[p].src])
       IN  scan' = [scan EXCEPT ![p] =
                      [todo |-> @.todo, src |-> @.src, snap |-> size, upd |-> @.upd,
                       pos |-> LeastOf(@.pos, size)]]
    /\ UNCHANGED <<content, lock, sqlVars, diskVars, pc, op, queue, staged, cur, lines>>

\* A line below both the snapshot and the present end of the file.
HasLine(p) ==
    /\ pc[p] = "scan" /\ scan[p].src # None /\ scan[p].snap # NoRow
    /\ scan[p].pos < LeastOf(scan[p].snap, Len(content[scan[p].src]))

NextRecord(p) ==
    LET s == scan[p].src  i == scan[p].pos + 1 IN <<s, i, content[s][i]>>

\* Mutated: seen_ids is not consulted.
IsPending(p, r) == r \in pSeen[op[p]]

\* stage_pending_seen_id inserts unless seen or already pending.
IsKnown(p, r) == r \in seen \cup pSeen[op[p]]

\* ChunkStager::push.  Whether the record still fits is a matter of bytes: the
\* current chunk, unless empty, may be closed first.
Push(p, r) ==
    \/ /\ cur' = [cur EXCEPT ![p] = @ \cup {r}]
       /\ UNCHANGED staged
    \/ /\ cur[p] # {}
       /\ staged' = [staged EXCEPT ![p] = Append(@, cur[p])]
       /\ cur' = [cur EXCEPT ![p] = {r}]

StageRecord(p) ==
    /\ HasLine(p) /\ ~ IsKnown(p, NextRecord(p))
    /\ pSeen' = [pSeen EXCEPT ![op[p]] = @ \cup {NextRecord(p)}]
    /\ Push(p, NextRecord(p))
    /\ scan' = [scan EXCEPT ![p].pos = @ + 1]
    /\ UNCHANGED <<content, lock, ckpt, seen, ops, pCkpt, pLines, diskVars, pc, op,
                   queue, lines>>

SkipRecord(p) ==
    /\ HasLine(p) /\ IsKnown(p, NextRecord(p))
    /\ scan' = [scan EXCEPT ![p].pos = @ + 1]
    /\ UNCHANGED <<content, lock, sqlVars, diskVars, pc, op, queue, staged, cur, lines>>

CloseSource(p) ==
    /\ pc[p] = "scan" /\ scan[p].src # None /\ scan[p].snap # NoRow
    /\ ~ HasLine(p)
    /\ scan' = [scan EXCEPT ![p] =
                  [todo |-> @.todo, src |-> None, snap |-> NoRow, pos |-> 0,
                   upd |-> [@.upd EXCEPT ![scan[p].src] = scan[p].pos]]]
    /\ UNCHANGED <<content, lock, sqlVars, diskVars, pc, op, queue, staged, cur, lines>>

\* ChunkStager::finish, and the branch on whether there is anything new.
FinishScan(p) ==
    /\ pc[p] = "scan" /\ scan[p].src = None /\ scan[p].todo = {}
    /\ staged' = [staged EXCEPT ![p] = IF cur[p] = {} THEN @ ELSE Append(@, cur[p])]
    /\ cur' = [cur EXCEPT ![p] = {}]
    /\ Goto(p, IF staged'[p] = <<>> THEN "nothing" ELSE "stage")
    /\ UNCHANGED <<content, lock, sqlVars, diskVars, op, queue, scan, lines>>

-----------------------------------------------------------------------------
(* Nothing new: checkpoints move, the operation is dropped *)

CommitCheckpoints(p) ==
    /\ pc[p] = "nothing"
    /\ ckpt' = Upsert(ckpt, scan[p].upd)
    /\ scan' = [scan EXCEPT ![p] = NoScan]
    /\ Goto(p, "drop")
    /\ UNCHANGED <<content, lock, seen, ops, pSeen, pCkpt, pLines, diskVars, op, queue,
                   staged, cur, lines>>

\* discard_pending_backup of an operation with no manifest entries.
DropOperation(p) ==
    /\ pc[p] = "drop"
    /\ DeleteRows(op[p])
    /\ op' = [op EXCEPT ![p] = None]
    /\ Goto(p, "done")
    /\ UNCHANGED <<content, lock, ckpt, seen, diskVars, queue, scan, staged, cur, lines>>

(* Something new: stage, promote, replace, sync, commit *)

StageCheckpoints(p) ==
    /\ pc[p] = "stage"
    /\ pCkpt' = [pCkpt EXCEPT ![op[p]] = scan[p].upd]
    /\ scan' = [scan EXCEPT ![p] = NoScan]
    /\ Goto(p, "lines")
    /\ UNCHANGED <<content, lock, ckpt, seen, ops, pSeen, pLines, diskVars, op, queue,
                   staged, cur, lines>>

\* Load the manifest for its last hash, then stage_pending_manifest_entries.
StageLines(p) ==
    /\ pc[p] = "lines"
    /\ lines' = [lines EXCEPT ![p] = ManifestLines(op[p], staged[p], LastChunk(manifest))]
    /\ pLines' = [pLines EXCEPT ![op[p]] = lines'[p]]
    /\ staged' = [staged EXCEPT ![p] = <<>>]
    /\ Goto(p, "promote")
    /\ UNCHANGED <<content, lock, ckpt, seen, ops, pSeen, pCkpt, diskVars, op, queue,
                   scan, cur>>

\* Rename one staged chunk into chunks/, in order.
PromoteChunk(p) ==
    /\ pc[p] = "promote"
    /\ \E k \in DOMAIN lines[p] :
         /\ lines[p][k].chunk \notin chunks
         /\ \A j \in 1..(k - 1) : lines[p][j].chunk \in chunks
         /\ chunks' = chunks \cup {lines[p][k].chunk}
    /\ UNCHANGED <<content, lock, sqlVars, manifest, dChunks, dManifest, localVars>>

\* Mutated: the manifest may go first.
AllPromotedAssumed(p) == TRUE

\* Whether every chunk has its final name.
AllPromoted(p) == ChunksOf(lines[p]) \subseteq chunks

\* The new manifest: what the file holds now, then the new lines.
AppendedManifest(p) == manifest \o lines[p]

\* replace_manifest_with_appended_lines: read the manifest again, write the
\* copy with the new lines, rename it over.
ReplaceManifest(p) ==
    /\ pc[p] = "promote"
    /\ AllPromoted(p)
    /\ manifest' = AppendedManifest(p)
    /\ lines' = [lines EXCEPT ![p] = <<>>]
    /\ Goto(p, "sync")
    /\ UNCHANGED <<content, lock, sqlVars, chunks, dChunks, dManifest, op, queue, scan,
                   staged, cur>>

SyncMetadata(p) ==
    /\ pc[p] = "sync"
    /\ SyncFiles
    /\ Goto(p, "commit")
    /\ UNCHANGED <<content, lock, sqlVars, op, queue, scan, staged, cur, lines>>

CommitPending(p) ==
    /\ pc[p] = "commit"
    /\ CommitRows(op[p])
    /\ op' = [op EXCEPT ![p] = None]
    /\ Goto(p, "done")
    /\ UNCHANGED <<content, lock, diskVars, queue, scan, staged, cur, lines>>

\* Return: the lock handle is dropped.
Return(p) ==
    /\ pc[p] = "done"
    /\ Exit(p)
    /\ UNCHANGED <<content, sqlVars, diskVars>>

-----------------------------------------------------------------------------
(* Failures and the environment *)

\* An error return or a kill, at any point.  Neither cleans up: the pending
\* rows and the promoted files stay, and the lock goes with the handle.
Abort(p) ==
    /\ pc[p] \notin {"idle", "done"}
    /\ Exit(p)
    /\ UNCHANGED <<content, sqlVars, diskVars>>

\* Names that were not synced may or may not have reached the disk, each on
\* its own; the manifest is the old file or the new one.  SQLite keeps what it
\* committed.
PowerLoss ==
    /\ PowerLossAllowed
    /\ lock' = None
    /\ pc' = [p \in Proc |-> "idle"]
    /\ op' = [p \in Proc |-> None]
    /\ queue' = [p \in Proc |-> {}]
    /\ scan' = [p \in Proc |-> NoScan]
    /\ staged' = [p \in Proc |-> <<>>]
    /\ cur' = [p \in Proc |-> {}]
    /\ lines' = [p \in Proc |-> <<>>]
    /\ \E lucky \in SUBSET ((chunks \ dChunks) \cup (dChunks \ chunks)) :
         chunks' = (chunks \cap dChunks) \cup lucky
    /\ manifest' \in {manifest, dManifest}
    /\ dChunks' = chunks'
    /\ dManifest' = manifest'
    /\ UNCHANGED <<content, sqlVars>>

AppendLine(s, t) ==
    /\ Len(content[s]) < MaxLines
    /\ content' = [content EXCEPT ![s] = Append(@, t)]
    /\ UNCHANGED <<lock, sqlVars, diskVars, localVars>>

\* A session file is rewritten shorter (rotation, an edited history).
TruncateSource(s) ==
    /\ TruncateAllowed
    /\ \E n \in 0..(Len(content[s]) - 1) :
         content' = [content EXCEPT ![s] = SubSeq(@, 1, n)]
    /\ UNCHANGED <<lock, sqlVars, diskVars, localVars>>

-----------------------------------------------------------------------------
Recover(p) ==
    \/ \E o \in OpId : \/ RecoverDiscardChunk(p, o)
                       \/ RecoverDiscardRows(p, o)
                       \/ RecoverSync(p, o)
                       \/ RecoverMissingChunk(p, o)
                       \/ BeginBackup(p, o)
    \/ RecoverCommit(p)

Scan(p) ==
    \/ \E s \in Source : StatSource(p, s)
    \/ OpenSource(p)
    \/ StageRecord(p)
    \/ SkipRecord(p)
    \/ CloseSource(p)
    \/ FinishScan(p)

Publish(p) ==
    \/ CommitCheckpoints(p)
    \/ DropOperation(p)
    \/ StageCheckpoints(p)
    \/ StageLines(p)
    \/ PromoteChunk(p)
    \/ ReplaceManifest(p)
    \/ SyncMetadata(p)
    \/ CommitPending(p)
    \/ Return(p)

Step(p) == LockArchive(p) \/ Recover(p) \/ Scan(p) \/ Publish(p)

Environment ==
    \/ PowerLoss
    \/ \E s \in Source : \/ \E t \in Text : AppendLine(s, t)
                         \/ TruncateSource(s)

Next == \/ \E p \in Proc : Step(p) \/ Abort(p)
        \/ Environment

Spec == Init /\ [][Next]_vars

\* A process that runs keeps running, a scheduled backup is started again and
\* again, and from some point on no backup fails.
FairSpec == /\ Spec
            /\ \A p \in Proc : WF_vars(Step(p))
            /\ <>[][\A p \in Proc : ~ Abort(p)]_vars
-----------------------------------------------------------------------------
(* Properties *)

\* The places where a process works on an operation.
Working == {"recommit", "scan", "nothing", "drop", "stage", "lines", "promote",
            "sync", "commit"}

TypeOK ==
    /\ content \in [Source -> Seq(Text)]
    /\ \A s \in Source : Len(content[s]) <= MaxLines
    /\ lock \in Proc \cup {None}
    /\ ckpt \in [Source -> 0..MaxLines]
    /\ seen \subseteq Record
    /\ ops \subseteq OpId
    /\ pSeen \in [OpId -> SUBSET Record]
    /\ pCkpt \in [OpId -> Rows]
    /\ pLines \in [OpId -> Seq(Line)]
    /\ chunks \subseteq ChunkId /\ dChunks \subseteq ChunkId
    /\ manifest \in Seq(Line) /\ dManifest \in Seq(Line)
    /\ pc \in [Proc -> Working \cup {"idle", "recover", "done"}]
    /\ op \in [Proc -> OpId \cup {None}]
    /\ \A p \in Proc : pc[p] \in Working => op[p] # None
    /\ queue \in [Proc -> SUBSET OpId]
    /\ scan \in [Proc -> ScanState]
    /\ staged \in [Proc -> Seq(SUBSET Record)]
    /\ cur \in [Proc -> SUBSET Record]
    /\ lines \in [Proc -> Seq(Line)]

\* A record the next backup will skip can be restored, whatever happens to the
\* machine now: a synced manifest line holds it and the chunk's name is synced.
\* ("Persist promoted names before SQLite makes their records skippable.")
SeenRecoverable ==
    \A r \in seen : \E l \in Elems(manifest) \cap Elems(dManifest) :
        r \in l.recs /\ l.chunk \in chunks \cap dChunks

\* Checkpoints and seen ids agree when session files only grow: the lines below
\* a source's checkpoint are exactly its seen records, so no line is passed over
\* unarchived by any mixture of scans, kills and recoveries.
CheckpointMatchesSeen ==
    \A s \in Source :
        {r \in seen : r[1] = s} = {<<s, i, content[s][i]>> : i \in 1..ckpt[s]}

\* No record is archived twice, however often a backup is interrupted, repeated,
\* or rewound to the start of a file.
NoDuplicates ==
    \A i, j \in DOMAIN manifest :
        i # j => manifest[i].recs \cap manifest[j].recs = {}

\* The manifest is one hash chain, as verify demands, although the lines are
\* chained to a manifest read earlier than the one they are appended to.
ChainValid ==
    /\ \A i \in DOMAIN manifest :
         manifest[i].prev = LastChunk(SubSeq(manifest, 1, i - 1))
    /\ Cardinality(ChunksOf(manifest)) = Len(manifest)

\* The lock, recovery before each run, and the deletion of rows at its end leave
\* at most one operation to recover.
AtMostOnePending == \A a, b \in ops : a = b

\* While the machine keeps power, verify and restore, which take no lock, find
\* the chunk of every line they read.
ManifestChunksPresent == ChunksOf(manifest) \subseteq chunks

\* After a power loss a line can be without its chunk only while its operation
\* is pending, so none of its records counts as archived.
MissingChunksArePending ==
    \A l \in Elems(manifest) :
        l.chunk \in chunks \/ \E o \in ops : l \in Elems(pLines[o])

\* While the machine keeps power, chunk files are listed, or known to the
\* pending operation that will list or remove them.
NoStrayChunks ==
    chunks \subseteq ChunksOf(manifest)
                  \cup UNION {ChunksOf(pLines[o]) : o \in ops}

\* When session files only grow, no commit takes a checkpoint back: recovery
\* never applies the rows of an operation that a later one has overtaken.
CheckpointsAdvance == [][\A s \in Source : ckpt[s] <= ckpt'[s]]_vars

\* The command implements the ledger: what a power loss would leave of the
\* manifest is the published batches, and seen_ids what is acknowledged.
Ledger == INSTANCE ArchiveLedger
    WITH ledger <- [i \in DOMAIN dManifest |-> dManifest[i].recs], known <- seen
ImplementsLedger == Ledger!LedgerSpec
ImplementsFairLedger == Ledger!LedgerFairSpec

\* Every complete line is archived in the end.
LinesEventuallySeen ==
    \A s \in Source : \A i \in 1..MaxLines :
        Len(content[s]) >= i ~> \E t \in Text : <<s, i, t>> \in seen
=============================================================================
