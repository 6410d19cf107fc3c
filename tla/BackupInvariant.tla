--------------------------- MODULE BackupInvariant ---------------------------
(***************************************************************************)
(* The inductive invariants of Backup.  IInv is the one behind             *)
(* SeenRecoverable and AtMostOnePending, and what the others rest on.      *)
(* SeenRecoverable alone is not inductive: a commit adds the staged ids of *)
(* an operation to seen_ids, so the invariant has to say where the records *)
(* of a pending operation are at every step before that, also after a kill *)
(* or a power loss left the operation to somebody else.                    *)
(***************************************************************************)
EXTENDS Backup

\* A running process holds the lock.
LockInv == \A p \in Proc : pc[p] # "idle" => lock = p

\* What the pending tables hold while a process is at each place.
OpsInv ==
    \A p \in Proc :
        /\ pc[p] = "recover" => queue[p] = ops
        /\ pc[p] = "recommit" => queue[p] = ops /\ op[p] \in ops
        /\ pc[p] \in Working \ {"recommit"} => ops = {op[p]}
        /\ pc[p] = "done" => ops = {}

\* The k-th pending line of an operation names the k-th chunk of it.
LineNames ==
    \A o \in OpId : \A k \in DOMAIN pLines[o] : pLines[o][k].chunk = <<o, k>>

\* A published line that belongs to a pending operation is one of its lines.
LineOwner ==
    \A o \in ops : \A l \in Elems(manifest) \cup Elems(dManifest) :
        l.chunk[1] = o => l \in Elems(pLines[o])

\* Once an operation has its lines, they hold every record staged for it.
StagedInLines ==
    \A o \in ops : pLines[o] # <<>> => pSeen[o] \subseteq RecsOf(pLines[o])

\* Before that, the records are in the chunks the running process staged.
StagedInChunks ==
    \A p \in Proc :
        /\ pc[p] = "scan" =>
             /\ pLines[op[p]] = <<>>
             /\ pSeen[op[p]] \subseteq cur[p] \cup UNION Elems(staged[p])
        /\ pc[p] \in {"stage", "lines"} =>
             /\ pLines[op[p]] = <<>>
             /\ staged[p] # <<>>
             /\ pSeen[op[p]] \subseteq UNION Elems(staged[p])

\* Promotion, replacement, sync and commit, each with what the one before did.
PublishInv ==
    \A p \in Proc :
        /\ pc[p] = "promote" => lines[p] # <<>> /\ lines[p] = pLines[op[p]]
        /\ pc[p] \in {"sync", "commit", "recommit"} =>
             /\ pLines[op[p]] # <<>>
             /\ Elems(pLines[op[p]]) \subseteq Elems(manifest)
             /\ ChunksOf(pLines[op[p]]) \subseteq chunks
        /\ pc[p] \in {"commit", "recommit"} =>
             /\ Elems(pLines[op[p]]) \subseteq Elems(dManifest)
             /\ ChunksOf(pLines[op[p]]) \subseteq dChunks

IInv ==
    /\ TypeOK
    /\ LockInv
    /\ OpsInv
    /\ AtMostOnePending
    /\ LineNames
    /\ LineOwner
    /\ StagedInLines
    /\ StagedInChunks
    /\ PublishInv
    /\ SeenRecoverable

-----------------------------------------------------------------------------
(* The archive: what the manifest, as it is and as it is durable, has to do  *)
(* with the pending operation and with seen_ids                              *)

\* Lines that name each other in order, the first one naming first.
ChainedTo(ls, first) ==
    \A k \in DOMAIN ls : ls[k].prev = IF k = 1 THEN first ELSE ls[k - 1].chunk

\* Sets of records that are new, each with something in it.
Disjoint(batch) ==
    \A i \in DOMAIN batch :
        /\ batch[i] # {}
        /\ \A j \in DOMAIN batch : i # j => batch[i] \cap batch[j] = {}

\* Lines with chunks and records of their own.
OwnBatches(ls) ==
    \A i \in DOMAIN ls :
        /\ ls[i].recs # {}
        /\ \A j \in DOMAIN ls :
             i # j => ls[i].recs \cap ls[j].recs = {} /\ ls[i].chunk # ls[j].chunk

ManifestsSound ==
    \A m \in {manifest, dManifest} : ChainedTo(m, Genesis) /\ OwnBatches(m)

\* What is not durable of the manifest is the pending operation, whole.
DurablePrefix ==
    \/ manifest = dManifest
    \/ \E o \in ops : pLines[o] # <<>> /\ manifest = dManifest \o pLines[o]

\* An operation is in a manifest with all its lines or with none.
AllOrNone ==
    \A o \in ops : \A m \in {manifest, dManifest} :
        \/ Elems(pLines[o]) \subseteq Elems(m)
        \/ Elems(pLines[o]) \cap Elems(m) = {}

\* The records of a pending operation are new, and each is in one line of it.
PendingLines ==
    \A o \in ops :
        /\ OwnBatches(pLines[o])
        /\ RecsOf(pLines[o]) \subseteq pSeen[o]
        /\ pSeen[o] \cap seen = {}

\* A line that belongs to no pending operation is seen, and its chunk durable.
Settled ==
    \A l \in Elems(manifest) \cup Elems(dManifest) :
        \/ l.recs \subseteq seen /\ l.chunk \in chunks \cap dChunks
        \/ \E o \in ops : l \in Elems(pLines[o])

\* What a run has staged, and the lines it is about to append.
StagedNew ==
    \A p \in Proc :
        /\ pc[p] \in {"scan", "stage", "lines"} =>
             /\ Disjoint(staged[p])
             /\ cur[p] \cup UNION Elems(staged[p]) \subseteq pSeen[op[p]]
             /\ cur[p] \cap UNION Elems(staged[p]) = {}
        /\ pc[p] \notin {"scan", "stage", "lines"} => staged[p] = <<>> /\ cur[p] = {}
        /\ pc[p] \in {"nothing", "drop"} =>
             pLines[op[p]] = <<>> /\ pSeen[op[p]] = {}
        /\ pc[p] = "promote" =>
             /\ ChainedTo(lines[p], LastChunk(manifest))
             /\ Elems(lines[p]) \cap Elems(manifest) = {}

\* The inductive invariant of the manifest, its chunks and the pending operation
\* (backup.rs and storage.rs): the manifest is a chain of new records, and all
\* of it that is not durable and seen is the one operation recovery will finish.
ArchiveInv ==
    /\ IInv
    /\ ManifestsSound
    /\ DurablePrefix
    /\ AllOrNone
    /\ PendingLines
    /\ Settled
    /\ StagedNew

-----------------------------------------------------------------------------
(* Checkpoints, when session files only grow *)

OfSource(rs, s) == {r \in rs : r[1] = s}

\* The records after line a of a session file, up to line b.
Span(s, a, b) == {<<s, i, content[s][i]>> : i \in (a + 1)..b}

\* How far a scan has come in source s.
Reached(p, s) ==
    IF scan[p].src = s THEN scan[p].pos ELSE Upsert(ckpt, scan[p].upd)[s]

\* The records rs are those from the checkpoint of s to line n.
Covers(rs, s, n) ==
    /\ ckpt[s] <= n /\ n <= Len(content[s])
    /\ OfSource(rs, s) = Span(s, ckpt[s], n)

\* What a scan has taken up is what lies between checkpoint and its position.
ScanCovers ==
    \A p \in Proc :
        /\ pc[p] \in {"scan", "nothing", "stage"} =>
             \A s \in Source : Covers(pSeen[op[p]], s, Reached(p, s))
        /\ pc[p] = "scan" =>
             \A s \in scan[p].todo : scan[p].upd[s] = NoRow /\ scan[p].src # s
        /\ pc[p] \in {"nothing", "stage"} => scan[p].src = None
        /\ pc[p] \notin {"scan", "nothing", "stage"} => scan[p] = NoScan

\* The rows of an operation say how far its records go, also for whoever
\* recovers it.
RowsCover ==
    \A o \in ops :
        pLines[o] # <<>> \/ (\E p \in Proc : pc[p] = "lines" /\ op[p] = o) =>
            \A s \in Source : Covers(pSeen[o], s, Upsert(ckpt, pCkpt[o])[s])

\* The records a backup skips are those before the checkpoints.
SeenBefore ==
    \A s \in Source :
        ckpt[s] <= Len(content[s]) /\ OfSource(seen, s) = Span(s, 0, ckpt[s])

\* The inductive invariant of the checkpoints (backup.rs:214, storage.rs:257) for
\* files that only grow: seen_ids are the lines before them, and what a scan or a
\* pending operation holds is the stretch from them to where its rows will be.
CheckpointInv == ~ TruncateAllowed => SeenBefore /\ ScanCovers /\ RowsCover
=============================================================================
