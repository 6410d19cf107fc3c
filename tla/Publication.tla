---------------------------- MODULE Publication ----------------------------
(***************************************************************************)
(* How a directory becomes an archive: cmd_init of commands/lifecycle.rs   *)
(* creates one in it, and sync_to_remote of storage.rs, called at the end  *)
(* of a backup with --remote-dir, copies another archive there.            *)
(*                                                                         *)
(* The model has one directory, the destination, and its publication lock. *)
(* The final key file and the manifest mark it as an archive.  A staged    *)
(* key has a random name and neither init nor remote sync looks at those,  *)
(* so staged keys are left out, and so are the staged files of a copy and  *)
(* config.json.  A key stands for the init that made it, with its recovery *)
(* code, or for the archive it was copied from.                            *)
(***************************************************************************)
EXTENDS Integers

CONSTANTS
    Initiator,  \* processes that run init on the destination
    WithFile,   \* those of them that give --recovery-file, all the same one
    Source,     \* archives whose backups have the destination as remote
    MaxChunks,  \* bound: chunks of a source
    None

ASSUME ProcAssumption ==
    /\ WithFile \subseteq Initiator
    /\ Initiator \cap Source = {}
    /\ None \notin Initiator \cup Source
    /\ "torn" \notin Initiator \cup {None}
ASSUME ChunksAssumption == MaxChunks \in Nat

Proc == Initiator \cup Source

\* A chunk is named by its archive and its number.
OwnChunk == <<None, 1>>
Chunk == (Source \X (1..MaxChunks)) \cup {OwnChunk}

VARIABLES
    (* the destination *)
    lock,      \* state/init.lock
    key,       \* keys/keys.env
    manifest,  \* the chunks listed in manifests/manifest.tsv, None: no file
    chunks,    \* chunks/
    rows,      \* whose rows the database has for it: "stale" ones of an archive
               \* that was here before, "legacy" ones from the TSV files of one
               \* that had no database, "live" ones from a backup of this one
    unimported,\* whether there are TSV files, and no marker of their import
    recovery,  \* whose code is in the recovery file
    (* the sources *)
    size,      \* chunks in the manifest of a source
    (* the processes *)
    pc,
    todo       \* chunk files a sync has yet to copy

archive == <<key, manifest, chunks>>
local   == <<rows, unimported, recovery>>
vars    == <<lock, archive, local, size, pc, todo>>

-----------------------------------------------------------------------------
\* Mutated: chunks are counted from zero.
ListedFromZero(s) == {s} \X (0..(size[s] - 1))

\* The chunks a source has in its chunks/ and its manifest.
Listed(s) == {s} \X (1..size[s])

\* Mutated: the manifest does not count.
KeyMissing == key = None

\* Mutated: the key does not count.
ManifestMissing == manifest = None

\* The two paths init refuses to find.
Fresh == key = None /\ manifest = None

\* Mutated: the lock keeps nobody out.
LockIgnored == TRUE

LockFree == lock = None

\* Mutated: only what the last backup added is copied.
LatestChunk(s) == Listed(s) \ ({s} \X (1..(size[s] - 1)))

\* copy_dir_files of the source's chunks
ToCopy(s) == Listed(s)

\* Mutated: the manifest is copied whatever is missing.
CopiedEnough(s) == TRUE

ChunksCopied(s) == todo[s] = {}

\* Mutated: the marker is not written.
MarkForgotten == UNCHANGED unimported

\* Written with the rows, in one transaction.
MarkImported == unimported' = FALSE

\* migrate_legacy_tsv
MigratedRows == IF unimported THEN rows \cup {"legacy"} ELSE rows

AfterReset(p) == IF p \in WithFile THEN "truncate" ELSE "publish"

\* rename_keys_no_replace
KeyOrNew(p) == IF key = None THEN p ELSE key

Init ==
    /\ lock = None
    /\ key = None /\ manifest = None /\ chunks = {}
    /\ rows \in {{}, {"stale"}}
    /\ unimported \in IF rows = {} THEN BOOLEAN ELSE {FALSE}
    /\ recovery = None
    /\ size = [s \in Source |-> 0]
    /\ pc = [p \in Proc |-> "idle"]
    /\ todo = [s \in Source |-> {}]

Goto(p, label) == pc' = [pc EXCEPT ![p] = label]

\* lock_archive_publication: an attempt that finds the lock taken fails at once.
Lock(p, label) ==
    /\ LockFree
    /\ lock' = p
    /\ Goto(p, label)

\* Mutated: a lock that outlives its process.
LeaveLocked(p) == Goto(p, "idle") /\ UNCHANGED lock

\* The lock is released when its handle is closed, by a return or by a kill.
Leave(p) ==
    /\ lock' = IF lock = p THEN None ELSE lock
    /\ Goto(p, "idle")

-----------------------------------------------------------------------------
(* init *)

LockForInit(p) ==
    /\ pc[p] = "idle"
    /\ Lock(p, "check")
    /\ UNCHANGED <<archive, local, size, todo>>

RefuseInit(p) ==
    /\ pc[p] = "check" /\ ~ Fresh
    /\ Leave(p)
    /\ UNCHANGED <<archive, local, size, todo>>

\* The key is written and synced under its staged name.
StageKey(p) ==
    /\ pc[p] = "check" /\ Fresh
    /\ Goto(p, "open")
    /\ UNCHANGED <<lock, archive, local, size, todo>>

\* StateStore::open
OpenState(p) ==
    /\ pc[p] = "open"
    /\ rows' = MigratedRows /\ MarkImported
    /\ Goto(p, "reset")
    /\ UNCHANGED <<lock, archive, recovery, size, todo>>

\* reset_for_init
ResetState(p) ==
    /\ pc[p] = "reset"
    /\ rows' = {} /\ MarkImported
    /\ Goto(p, AfterReset(p))
    /\ UNCHANGED <<lock, archive, recovery, size, todo>>

\* write_private_file
TruncateRecovery(p) ==
    /\ pc[p] = "truncate"
    /\ recovery' = "torn"
    /\ Goto(p, "recovery")
    /\ UNCHANGED <<lock, archive, rows, unimported, size, todo>>

WriteRecovery(p) ==
    /\ pc[p] = "recovery"
    /\ recovery' = p
    /\ Goto(p, "publish")
    /\ UNCHANGED <<lock, archive, rows, unimported, size, todo>>

PublishKey(p) ==
    /\ pc[p] = "publish"
    /\ key' = KeyOrNew(p)
    /\ Leave(p)
    /\ UNCHANGED <<manifest, chunks, local, size, todo>>

(* A backup of a source, with --remote-dir *)

\* The backup itself, with or without new records.
BackupSource(s) ==
    /\ pc[s] = "idle"
    /\ \E n \in {size[s], size[s] + 1} :
         n <= MaxChunks /\ size' = [size EXCEPT ![s] = n]
    /\ Goto(s, "sync")
    /\ UNCHANGED <<lock, archive, local, todo>>

LockForSync(s) ==
    /\ pc[s] = "sync"
    /\ Lock(s, "chunks")
    /\ todo' = [todo EXCEPT ![s] = ToCopy(s)]
    /\ UNCHANGED <<archive, local, size>>

\* The backup has been committed and returns an error.
RefuseSync(s) ==
    /\ pc[s] = "sync" /\ ~ LockFree
    /\ Goto(s, "idle")
    /\ UNCHANGED <<lock, archive, local, size, todo>>

\* copy_file_to_dir, in whatever order the directory is read
CopyChunk(s) ==
    /\ pc[s] = "chunks"
    /\ \E c \in todo[s] : /\ chunks' = chunks \cup {c}
                          /\ todo' = [todo EXCEPT ![s] = @ \ {c}]
    /\ UNCHANGED <<lock, key, manifest, local, size, pc>>

CopyManifest(s) ==
    /\ pc[s] = "chunks" /\ ChunksCopied(s)
    /\ manifest' = IF size[s] = 0 THEN manifest ELSE Listed(s)
    /\ Goto(s, "keys")
    /\ UNCHANGED <<lock, key, chunks, local, size, todo>>

CopyKey(s) ==
    /\ pc[s] = "keys"
    /\ key' = s
    /\ Leave(s)
    /\ UNCHANGED <<manifest, chunks, local, size, todo>>

-----------------------------------------------------------------------------
\* A process is killed, or a step of it returns an error.
Fail(p) ==
    /\ pc[p] # "idle"
    /\ Leave(p)
    /\ todo' = [s \in Source |-> IF s = p THEN {} ELSE todo[s]]
    /\ UNCHANGED <<archive, local, size>>

\* A backup of the destination itself, in one step (Backup has the others), under
\* a lock of its own.  It needs the key; with nothing new to archive it leaves
\* rows but no manifest.
BackupHere ==
    /\ key # None
    /\ rows' = MigratedRows \cup {"live"} /\ MarkImported
    /\ \/ UNCHANGED <<manifest, chunks>>
       \/ /\ chunks' = chunks \cup {OwnChunk}
          /\ manifest' = (IF manifest = None THEN {} ELSE manifest) \cup {OwnChunk}
    /\ UNCHANGED <<lock, key, recovery, size, pc, todo>>

InitStep(p) ==
    \/ LockForInit(p) \/ RefuseInit(p)
    \/ StageKey(p) \/ OpenState(p) \/ ResetState(p)
    \/ TruncateRecovery(p) \/ WriteRecovery(p)
    \/ PublishKey(p)

SyncStep(s) ==
    LockForSync(s) \/ CopyChunk(s) \/ CopyManifest(s) \/ CopyKey(s)

Next ==
    \/ \E p \in Initiator : InitStep(p)
    \/ \E s \in Source : BackupSource(s) \/ RefuseSync(s) \/ SyncStep(s)
    \/ \E p \in Proc : Fail(p)
    \/ BackupHere

Spec == Init /\ [][Next]_vars

\* A process that runs keeps running, and init is tried again and again.  From
\* some point on nothing fails, and no backup reaches its sync while the lock is
\* taken.
FairSpec ==
    /\ Spec
    /\ \A p \in Initiator : WF_vars(InitStep(p))
    /\ \A s \in Source : WF_vars(SyncStep(s)) /\ SF_vars(LockForSync(s))
    /\ <>[][/\ \A p \in Proc : ~ Fail(p)
            /\ \A s \in Source : ~ RefuseSync(s)]_vars

-----------------------------------------------------------------------------
(* Properties *)

\* Where init and sync are when they have the lock.
InitLocked == {"check", "open", "reset", "truncate", "recovery", "publish"}
SyncLocked == {"chunks", "keys"}

TypeOK ==
    /\ lock \in Proc \cup {None}
    /\ key \in Proc \cup {None}
    /\ manifest \in (SUBSET Chunk) \cup {None}
    /\ chunks \in SUBSET Chunk
    /\ rows \in SUBSET {"stale", "legacy", "live"}
    /\ unimported \in BOOLEAN
    /\ recovery \in Initiator \cup {None, "torn"}
    /\ size \in [Source -> 0..MaxChunks]
    /\ pc \in [Proc -> {"idle", "sync"} \cup InitLocked \cup SyncLocked]
    /\ todo \in [Source -> SUBSET Chunk]

Holding(p) == pc[p] \in InitLocked \cup SyncLocked

\* Whoever finds a manifest in the destination finds the chunks it lists, also
\* when copies are broken off anywhere and backups of the destination go on.
ListedChunksPresent == manifest # None => manifest \subseteq chunks

\* The recovery file opens the archive init created, whatever other inits were
\* refused or broken off, before or after.
RecoveryFileOpens == key \in WithFile => recovery = key

\* As long as the key is the one an init published, the database has no row of an
\* archive that was there before that init, and no TSV file from which a later
\* command might import any, so no backup skips a record on their account.
OwnRows == key \in Initiator => rows \subseteq {"live"} /\ ~ unimported

\* The inductive invariant behind these properties.
Roles ==
    /\ \A p \in Initiator : pc[p] \in {"idle"} \cup InitLocked
    /\ \A s \in Source : pc[s] \in {"idle", "sync"} \cup SyncLocked

LockHeld == \A p \in Proc : Holding(p) => lock = p

\* What an init found stays as it was, and it publishes what it prepared.
InitPrepared ==
    \A p \in Initiator :
        /\ pc[p] \in InitLocked \ {"check"} => key = None /\ manifest = None
        /\ pc[p] \in {"truncate", "recovery", "publish"} => rows = {} /\ ~ unimported
        /\ pc[p] = "publish" /\ p \in WithFile => recovery = p

RowsHaveKey == "live" \in rows => key # None

CopyPrepared == \A s \in Source : pc[s] = "chunks" => Listed(s) \subseteq chunks \cup todo[s]

PublicationInv ==
    /\ TypeOK /\ Roles /\ LockHeld
    /\ InitPrepared /\ RowsHaveKey /\ CopyPrepared
    /\ ListedChunksPresent /\ RecoveryFileOpens /\ OwnRows

\* init never clears the rows of an archive that backups have begun to use.
LiveRowsKept == []["live" \in rows => "live" \in rows']_vars

\* The key of a new archive goes only where there is no archive, no part of a
\* copy that could be taken for one, and no row of an earlier one; and a key is
\* only ever replaced by that of an archive copied over it.
NewKeyAlone ==
    [][key' # key => \/ key' \in Source
                     \/ key = None /\ manifest = None /\ rows = {}]_vars

\* If init is tried until it is refused, the directory is marked as an archive.
EventuallyMarked == <>(key # None \/ manifest # None)

\* If a source is backed up again and again, the destination again and again has
\* all of it.
CaughtUp(s) ==
    /\ key = s
    /\ size[s] > 0 => manifest # None /\ Listed(s) \subseteq manifest \cap chunks

RemoteCatchesUp ==
    \A s \in Source : []<>(pc[s] = "sync") => []<>CaughtUp(s)
=============================================================================
