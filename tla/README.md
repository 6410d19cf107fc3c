# Verification of chat-archive-rs

`chat-archive-rs` archives the session files of Codex and Claude: it reads what
is new, encrypts it in chunk files, lists the chunks in a hash-chained manifest,
and remembers in SQLite what it has archived. This directory holds TLA+ models of
it, the TLC runs that check them, and TLAPS proofs about the core. Paths are
relative to the repository, which is under `src/`.

## The system

| Part | State | Operations | Hard because |
|---|---|---|---|
| Backup command (`src/commands/backup.rs`) | `state/backup.lock`, staged chunks in `tmp/`, locals of one run | lock, recover, scan, stage, promote, replace manifest, sync, commit | kills and errors between durable moves, several processes |
| Pending-operation store (`src/storage.rs`) | SQLite tables: checkpoints, seen ids, pending operations with their ids, checkpoints and manifest lines | begin, stage, commit, discard, recover | SQLite, chunk files and manifest are three stores without a common transaction; power loss |
| Session file reader (`src/collector.rs`) | size snapshot, offsets | read a growing file, defer its tail | the snapshot cuts lines, CRLFs and characters |
| Source discovery (`src/collector.rs`) | none | walk the session directories | files appear during the walk |
| Monitor (`src/commands/monitor.rs`, `support.rs`) | `config.json`, `state/verify-schedule-state.env`, cycle and first error | cycles of backup and verify | early returns, slots that pass, monitors sharing unlocked files |
| init (`src/commands/lifecycle.rs`) | `state/init.lock`, `keys/keys.env` | refuse, stage key, reset state, publish | concurrent init and remote sync, durability of the key's name |
| Remote sync (`src/storage.rs`) | the destination's chunks, manifest, keys | copy under the destination's publication lock | interrupted between files |
| Verify, restore (`src/commands/verify.rs`, `restore.rs`) | private copies of chunks, output files | verify each chunk, keep it, create and write the outputs | no lock: backups publish and recover meanwhile, chunks are lost or damaged |
| Cryptography, keys (`src/crypto.rs`, `support.rs`, `lifecycle.rs`) | `keys/keys.env` | wrap, unwrap, encrypt, decrypt, recovery test | two secrets, two chunk formats |
| Command line, coding (`main.rs`, `utils.rs`) | none | pure functions | - |

A run of backup holds `backup.lock` from before recovery to its return. In
between it calls the store for every record, reads sources while other programs
append to them, and then makes four durable moves in this order: pending rows,
chunk names, manifest, commit. The monitor calls backup and verify in its
cycles. Verify and restore share nothing with a backup but the files.

What makes the parts correct: a record that later backups skip can be restored,
whatever happens to the machine; no line is passed over and none is archived
twice; the manifest stays one chain and its chunks exist; one operation at most
is pending; everything is archived in the end; the reader archives
every byte once and lines whole, as far as it can tell; the monitor reports what went wrong; verify and restore report damage and
nothing else, and a restore gives back, byte for byte, what was archived.

## Modules

| Module | Models |
|---|---|
| `Backup` | `run_backup_once`, the chunk stager, manifest replacement, and the pending operations of `StateStore` with their recovery |
| `ArchiveLedger` | abstract: an append-only ledger of batches and the set of records known to be in it |
| `BackupInvariant` | the inductive invariants of `Backup` |
| `BackupProofs`, `ArchiveProofs`, `CheckpointProofs` | proofs of its invariants: recoverability, the archive's files, the checkpoints; and, in `ArchiveProofs`, that it implements `ArchiveLedger` |
| `MCBackup` | instances for TLC |
| `JsonText` | external: when serde_json, ignoring values, runs out of input and when it meets an error |
| `Collector`, `MCCollector` | `stream_records_from_source`, byte by byte, with a concurrent writer |
| `CollectorProofs` | proofs about them |
| `Monitor`, `MCMonitor` | `cmd_monitor`, the policy file and the verify-schedule file |
| `MonitorProofs` | proofs about the exit result of the monitor |
| `Publication`, `MCPublication` | `cmd_init`, `sync_to_remote` and the publication lock of the directory both write to |
| `PublicationProofs` | proofs about init and remote sync |
| `Readers`, `MCReaders` | `run_verify_once` and `run_restore_once`, composed with `Backup` |
| `ReadersProofs` | proofs about them |
| `ChunkFormat`, `MCChunkFormat` | what becomes of a record's bytes: record line, chunk, key, verify's count, restore's parsing |
| `ChunkFormatProofs` | proofs that what is archived comes back, for any bytes and any number of records |

`Readers` extends `Backup`: its next-state relation takes all steps of backups and
adds those of the readers and of damage. The others stand alone. What `Backup`
takes for granted about bytes is what `Collector` (offsets of whole lines) and
`ChunkFormat` (a chunk gives back its records) check.

### Backup

One action per call that changes durable state or a local that a later step
relies on; `pc` names the place in `run_backup_once`.

- `LockArchive`: lines 181-199. The lock blocks; it goes with the process.
- `RecoverDiscardChunk`, `RecoverDiscardRows`, `RecoverSync`, `RecoverCommit`,
  `RecoverMissingChunk`: `recover_pending_backups`. An operation all of whose
  lines are in the manifest (`Resumable`) is finished, any other is undone.
- `BeginBackup` with `Discovered`: every session file that exists is found. An
  empty file and a missing one are not told apart, so an empty one may be found
  or not.
- `StatSource`, `OpenSource`, `StageRecord`, `SkipRecord`,
  `CloseSource`, `FinishScan`: the source loop. The size is taken twice, as in
  the code, and the files grow or shrink between any two steps.
- `CommitCheckpoints`, `DropOperation`: the branch with nothing new.
- `StageCheckpoints`, `StageLines`, `PromoteChunk`, `ReplaceManifest`,
  `SyncMetadata`, `CommitPending`, `Return`: the branch with new records.
- `Abort`: an error return or a kill at any point. Both leave rows and files.
- `PowerLoss`: every name that was not synced is kept or lost on its own, the
  manifest is the old or the new file, SQLite keeps its commits.
- `AppendLine`, `TruncateSource`: other programs, modelled from how the code
  reads the files.

`chunks` and `manifest` are what processes see, `dChunks` and `dManifest` what a
power loss is sure to leave. A chunk is synced under its staged name before it
gets its final one, so a chunk file is there and intact or not there. A source is
the sequence of its complete lines and offsets count lines; `Collector` shows
that this is what the byte offsets amount to. Record ids are taken as unique.
Where `ChunkStager::push` closes a chunk depends on bytes, so it may close one
before any record.

Definitions marked "Mutated" are not used by the model. Each is a plausible bug
in the definition below it, and substituting it violates the property that
PROJECT.json names: the evidence that the property depends on that code.

### Collector

The file grows by any number of bytes at a time. `OpenFile` takes the snapshot,
and each raw line below it is rejected (`RejectLine`, not UTF-8), deferred
(`CommitAtTail`), skipped (`SkipBlankLine`) or emitted (`EmitRecord`), in the
code's order. Bytes are classes: the four brackets, quote, backslash, colon and
comma, a blank, another character, the two bytes of a long character, CR and LF;
a number or a keyword is one byte.

Whether an unterminated tail is deferred is up to `is_likely_complete_json_line`
(`LooksComplete`): without the blanks around it, it has to be enclosed in a pair of
brackets, and the parser must not run out of input. An error other than EOF
counts as complete (`collector.rs:179-184`). `JsonText` is the parser: `Parse` is its
state after each byte, `"done"` after a value, `"bad"` after a syntax error, and in
any other state the end of the text is EOF (`Decided`). `MCCollector` assumes of
it what the unit tests of `collector.rs` assert of their tails (`TailsAsTested`,
which TLC evaluates).

`LinesAssumption` asks of the writer only whole characters and no line break in
a line: a line may be malformed. What the reader does for it depends on `Sound`:
a sound line begins with no bracket, or is JSON as a serializer writes it, with
no blank after its last bracket. No proper part of a sound line looks complete
(`CompleteIsWhole`), so it is archived whole or not yet. Another line that is met
half-written can be archived in pieces, as the second finding tells, and then
`ReadOnce` still says that each of its bytes is in one record and no record goes
over its end.

### Monitor

`LoadPolicy` to `PersistPolicy` are the start, `CheckDue` to `EndCycle` one
cycle, `Finish` the return. A file write is two steps, because `fs::write`
truncates first. `firstError` is a history variable: the first backup or
verification of the run that failed, whatever `run_error` says. A day is a slot
and `WeekDays` days are a week.

### Publication

One directory, the destination. `LockForInit` to `PublishKey` are `cmd_init`;
`BackupSource` to `CopyKey` are a backup of another archive that has the
directory as `--remote-dir`; both take `state/init.lock`, and an attempt that
finds it taken returns an error. `Fail` is a kill or an error at any step.
`BackupHere` is a backup of the destination, which takes the other lock: it
makes rows live that an init must not clear. It is one step here, because it is
only there to put the archive to use.

`rows` says whose rows the database has under the archive's path: `"live"` are
those of the archive that is there, `"stale"` those an earlier archive in the
same place left, since the database can be elsewhere (`APP_DB_PATH`), `"legacy"`
those imported from TSV files of an earlier version. `unimported` says that there
are such files and that the import has not been marked. Every opening of the
store imports them (`OpenState`, in `cmd_init` and in `BackupHere`), and one
transaction adds the rows and the mark.

Writers that do not take the lock are left out, as `README.md:108` leaves them out.

### Readers

`LoadManifest` takes the reader's only look at the manifest; `VerifyEntry` and
`RejectEntry` are one turn of `verify_manifest_entries`, with the chunk file as
it is at that moment. A restore keeps the bytes it has verified (`snapshot`, the
private directory of `VerifiedChunks`): the entry TRUE stands for the bytes that
were archived. `BeginOutputs` to `WriteReport` are `restore_verified_chunks`;
each output takes its name (`shown`) before it is written, and all restores
write to the same directory. `End` is the return, which drops the snapshot, and
`FailReader` an error or a kill at any step.

`DamageChunk` is the harm that comes to a file. It leaves alone the chunks of a
pending operation, because recovery treats a damaged one as it does a missing
one, which power losses give it. `MachineStops` is `PowerLoss` with the readers'
end. `seenAt` and `damagedAt` are history variables: `seen` and `damaged` when
the reader began. Session files only grow here.

### ChunkFormat

The data path with its bytes. A byte of a session file is a number, and a text is
a sequence of symbols: hexadecimal digits and separators one by one, a digest,
an offset or a provider as one symbol each. `BeginBackup`, `Push` and `Finish` are
the `ChunkStager` of one backup after another, each unlocked with one of the two
secrets, each with a limit of its own; `Room` and `BytesAfter` are its arithmetic.
`SplitN` cuts a text at its first separators (`Places`), as `splitn` does. `EncryptChunk` and
`DecryptChunk` have the two versions of the format, and an archive may hold a
chunk of the old one (`OldChunk`). `VerifiedCount` is how verify counts and
`RestoredRecords` how restore parses. Encryption is ideal: a ciphertext opens
with the secret it was made with and no other (`SameKey`). A hash is what it
covers (`Digest`), so collisions are left out. `UnlockArchiveKey` and
`RecoveryTest` take the options and environment variables in the code's order.

## Runs

| Run | Instance | Shows |
|---|---|---|
| `backup_kill` | 2 processes, 2 sources, 2 lines, 5 operations | under kills at every step, checkpoints are exactly the archived lines and only move forward, the manifest is a chain, its chunks exist, no chunk is stray, one operation pending; the invariant of the checkpoint proofs holds |
| `backup_power_loss` | 1 process, 1 source, 2 texts, 2 lines, 4 operations | under kills, power losses and files cut back and rewritten, seen records are recoverable, the invariant of the archive proofs holds, a line without its chunk belongs to a pending operation, no record is archived twice, and the durable state implements `ArchiveLedger` |
| `backup_live` | 2 processes, 1 source, 2 lines, 3 operations | lines are archived and batches acknowledged in the end |
| `collector` | 5 kinds of line, one malformed, LF and CRLF, 8 bytes | every byte before the checkpoint is archived once, sound lines whole; terminated sound lines are archived in the end; the invariant of the proofs holds |
| `collector_tail` | 5 kinds of line, 7 bytes | *violated*: an incomplete tail can fail the backup |
| `collector_partial` | 5 kinds of line, 6 bytes | *violated*: part of a malformed line can be archived |
| `monitor_cycles` | 2 monitors, 2 cycles, state file can fail | success means all cycles were clean; a backup or verify error that is returned is the first; the invariant of the proofs holds |
| `monitor_forever` | 1 endless monitor, 3 days | the current slot is verified and recorded in the end |
| `publication` | 3 inits, 2 of them with a recovery file, 2 sources with 2 chunks | the destination's manifest lists only chunks that are there; the recovery file opens the archive; init clears nothing in use, leaves no row of an earlier archive beside its key and publishes only into an empty directory; init and sync succeed when retried; the invariant of the proofs holds |
| `readers` | 1 backup process, 2 sources, 1 line each, 3 operations, a restore and a verification, 1 damaged chunk, power losses | only damage, or a chunk lost with an unfinished operation, is reported; damage that was there is; a restore that ends well has every record archived before it, each once; outputs of an earlier restore give way only after full verification |
| `chunk_format` | 4 records of three lengths, 6 limits, 3 secrets, with and without an old chunk | restore gives back each record unchanged and in order, verify counts and hashes as the stager does, chunks are as full as the limit allows, the recovery drill foretells the unlock |
| `monitor_faults` | 1 monitor, 2 cycles, state file can fail | *violated*: the first error is not always the one reported |

Bounds. The lock lets one process work at a time, so two show every way one
process can leave things to another. Two sources show checkpoints moving
separately. Two lines give a run with two chunks, or one operation after
another, and two texts a line that is rewritten. At most one operation is
pending and a discarded one leaves its id free, so four or five ids are never
exhausted before the lines are. Operation ids, processes and texts are only compared for equality, and
`IdSymmetry` permutes them in the runs without liveness. Eight bytes hold
two lines, the second cut anywhere, or a line cut and completed over several
backups; seven hold a line before one that is cut in a character, and six the
malformed line with either terminator. Two cycles are a first and a last one, and the second is
one of `VerifyEvery`. In `readers` each source has a line of its own, so a
reader's view can be empty, partial or whole while a later backup publishes, and
a third operation follows one that a power loss undid; one restore and one
verification suffice, because readers influence each other only through the
names of the outputs, and the restore can find those of no one else; that a
second restore respects the first is proved (`FormerOutputsAreKept`). The
records of `chunk_format` have tabs, line breaks and carriage returns in names
and lines, and one line occurs at two offsets; its limits lie below the size of
any record, at and beside the size of two with their separator, and above that
of all.

The monitors' runs do not check for deadlock, because the command returns; the
others do.

Fairness. In `backup_live`, a process that runs keeps running, a backup is
started again and again (the monitor, or a scheduler), and from some point on
none fails; nothing assumes which process gets the lock. There is no power loss
in it: after one, a listed chunk that is missing makes recovery refuse, and the
archive waits for a person (`RecoverMissingChunk`). In `collector`, a
writer finishes the line it began, which the next backup needs when a character
was cut. In `monitor_forever`, a verification that is due succeeds at
some time if it is tried again and again. In `publication`, init is tried again
and again, and from some point on nothing fails and syncs find the lock free:
retries go on, but nothing in the code makes them succeed while others keep the
lock. Backups of the sources are under no fairness; `RemoteCatchesUp` is about
those that are repeated. Weak fairness of every holder of `backup.lock` means too
that a holder that hangs is not in the model: the code waits for it without end,
and so would every later backup.

## Findings

1. `collector_tail`. `README.md:34` says that a backup "defers incomplete tail
   lines to next run". `collector.rs:123` checks UTF-8 before it looks at the
   tail, so a snapshot in the middle of a character fails the whole backup, for
   all sources.
2. `collector_partial`. `README.md:34` goes on "instead of archiving partial records".
   A malformed line such as `[x]]` that is cut after an inner bracket is archived in
   part, because the parser's error at `x` is not EOF (`collector.rs:183`); the
   checkpoint moves behind the part, and the rest becomes a second record. The
   comment there wants malformed records preserved, and `README.md:147-149` calls
   the check a heuristic; neither says that parts are archived. Blanks after the
   last bracket of a JSON line can be cut off in the same way.
3. `monitor_faults`. `README.md:212-214` says that a monitor with `--cycles`
   completes them all and reports the first error. An error of the
   verify-schedule file (`monitor.rs:56` and `:165`) returns at once, with
   cycles left, in place of the error that came first.

## Proofs

`BackupProofs` proves, for any number of processes, sources, texts, operation ids
and lines, with kills, power losses and truncations:

- `Invariance`: `IInv` always holds;
- `TypeCorrect`, `SeenIsRecoverable`, `OnePending`: what follows from it,
  `TypeOK`, `SeenRecoverable`, `AtMostOnePending`.

The assumptions are those of the module `Backup`: `None` is neither a process, a
source nor an id, `MaxLines` is a number, the switches are Booleans.

`SeenRecoverable` says that each seen record is in a durable line with a durable
chunk. It is not inductive: a commit makes all staged ids seen at once, perhaps
for an operation that some other process began before a power loss. `IInv` says
where those records are at each step before:

1. `StagedInChunks`: while the run scans and stages, in its staged chunks;
2. `StagedInLines`: once the operation has lines, in these lines, and this stays
   true for whoever recovers it;
3. `PublishInv`: after replacement the lines are in the manifest and their chunks
   in place; after the sync both durably, which is what the commit needs;
4. `LineNames`, `LineOwner`: a published line with the id of a pending operation
   is one of its lines, so undoing an operation removes no chunk of another;
5. `LockInv`, `OpsInv`, `AtMostOnePending`: only the holder of the lock works,
   and on the only operation there is.

`InvInit` and `InvStep` are the base and the step, with a case per action;
`TypeStep` carries the types, and the small lemmas are about sequences and
`ManifestLines`. `IInv` is a conjunct of `ArchiveInv`, which `backup_power_loss`
checks with TLC.

`ArchiveProofs` proves, for the same constants and with all the same faults, that
`ArchiveInv` always holds, and from it `ManifestIsChain`, `NothingTwice` and
`MissingArePending`. `ArchiveInv` adds to `IInv` how the manifest, as it is and as a
power loss would leave it, fits the pending operation and `seen_ids`:

1. `ManifestsSound`: both manifests are chains of lines with records and chunks of
   their own;
2. `DurablePrefix`: they differ by all lines of the pending operation, or not at
   all, so a power loss gives back a manifest of whole operations;
3. `AllOrNone`, `PendingLines`: an operation is in a manifest with all its lines or
   with none, and its records are not seen yet, so its lines repeat nothing;
4. `Settled`: any other line is seen and its chunk durable, which leaves the
   pending operation as the only one a power loss can take chunks from;
5. `StagedNew`: what a run has staged is new and in one chunk each, and the lines
   it is about to append are chained to the last line of a manifest that nobody
   else has changed since it was read.

`ChunksPresent` and `NoStrays` hold while the machine keeps power
(`PowerLossAllowed` is FALSE): `PowerKept` is inductive together with `ArchiveInv`,
because the chunk names come before their lines and go, if at all, before the rows
that know them. With power losses both are false, and `MissingArePending` is what
remains.

`CheckpointProofs` proves `CheckpointInv`, and for session files that only grow
(`TruncateAllowed` is FALSE) `CheckpointsAgree` and `Advancing`. A file that is cut
back makes both false by design, since the rewind moves its checkpoint back.
`SeenBefore` says that the seen ids are the lines before the checkpoints. For this
to survive a commit, the ids and the rows of the operation that is committed have
to end at the same line of each file: `ScanCovers` says so of a scan at every step
of its loop, and `RowsCover` of the staged rows, also when another process commits
them much later. Rows are never older than the checkpoints they
replace, because there is never a second operation that could have moved them.

`ArchiveProofs` proves too that `Backup` implements `ArchiveLedger` (`Refinement`). The
mapping takes the durable manifest as the ledger and `seen` as what is known. A
sync of a pending operation's lines, or a power loss that happens to keep the new
manifest, is `PublishBatches`; a commit is `Acknowledge`; every other step stutters.
That the published batches are new and that nothing is published before the last
ones are acknowledged is what `ArchiveInv` gives.

`CollectorProofs` proves, for any lines of whole characters, malformed ones
included, and any bound on the file, that `CollectorInv` always holds, and from it
`ArchivedWhole` and `CollectorTypeCorrect`. What is archived comes from what the
writer will have written, not only from what is in the file, so the invariant is
about `Whole`, the file with the rest of the line being written. It is made of
whole lines (`WholeLines`), and a backup stops only where a line begins, before the
rest of a terminator that came late, or inside a line that is not sound
(`Boundary`). `ReadLine` and `ReadRest` are the two cases of a turn of the loop: in a
line, what is not deferred is the rest of it or, if the line is not sound, a part;
after it there is only a line break left, which is skipped or deferred. That
a part of a sound line is deferred is `CompleteIsWhole`, and about the parser: a
state that is `Decided` stays so (`DecidedStays`), the state after a part of a text
is the same as in the whole (`ParseOfPart`), and after the end of a value only
blanks keep it from being an error (`DoneStep`).

`MonitorProofs` proves, for any number of monitors, cycles and days, any
`--verify-every` and any failures, that `MonitorInv` always holds
(`MonitorInvariance`), and from it `SuccessIsClean` and `CycleErrorFirst`. The
assumptions are that the options and numbers have their types and that `None` is
no result. The two properties speak of the moment of return only; the invariant
adds what is true before: with a positive count the error kept is the first that
occurred (`ErrorKept`), the counter is below the count whenever a cycle is about to
begin and positive in a cycle (`CyclesCounted`), and only a monitor that has
ended has a result (`ReturnedOnce`).

`PublicationProofs` proves, for any number of inits, sources and chunks, that
`PublicationInv` always holds, and from it `ListedPresent`, `RecoveryOpens`,
`RowsKept`, `RowsOwned` and `KeyAlone`. The assumptions are that inits and sources are
different processes and that `None` is neither. The invariant says what each
process may rely on while it has the lock (`LockHeld`): an init, that key and
manifest are still missing, and what it has prepared so far (`InitPrepared`); a
sync, that the chunks it has yet to copy are all that is missing
(`CopyPrepared`); and that rows are live only where there is a key
(`RowsHaveKey`).

`ReadersProofs` proves, for any number of readers, backups, sources, chunks and
damaged files, with power losses or without, that `RInv` always holds, and from
it `ReadersTypeCorrect`, `RestoresVerifiedBytes`, `DamageIsDetected` and
`FormerOutputsAreKept`. The assumptions are those of `Backup` and that restores
are readers, readers are not `None` and codex's sources are sources. No lock helps
here, so the invariant speaks of what a reader has for itself: its snapshot grows
with its loop and is as long as its view before anything is written
(`SnapshotInv`), all it kept was intact (`KeptIntact`), and what it has passed was
not damaged when it began, because damage stays (`UndamagedInv`). Every step of
the archive beside it is a step of `Backup`, and no step of a reader touches the
archive: the composition implements `Backup` (`ReadersImplementBackup`), and through
it the ledger (`LedgerBesideReaders`), and `ArchiveInv` holds beside readers too
(`ReadersKeepArchive`). With it follow
`RejectionsAreJustified` and `RestoresWhole`: a reader's view stays a part of the
manifest, which is only ever extended unless the machine stops and the readers with
it, and has all records that were seen when it was taken (`ViewInv`); what a
restore has written is, file by file, its view up to where it is (`WrittenInv`).

`ChunkFormatProofs` proves, for any records, any bytes in their paths and lines, any
limits and any number of backups, that `FormatInv` always holds
(`FormatInvariance`), and from it all that `chunk_format` checks: `Typing`,
`RestoringArchived`, `CountingAgrees`, `FillingChunks` and `UnlockingEither`. The
assumptions are that `None` is no secret, that limits are natural numbers, that
paths and lines are sequences of bytes, and that the other fields of a line
(digests, provider, offset) have no tab and no line break in them
(`RawAssumption`). Nothing is assumed of the digest: the record id is only carried,
and a text has the hash that was made of it. The argument goes up the layers of
the format:

1. Induction over sequences. The theorems of the library that take a predicate
   cannot be instantiated by the provers. `ByAppend` says the same of a set of
   sequences that has the empty one and is closed under `Append`, and is proved from
   the least length that is missing (`LeastNumber`). `FlattenAppend` and
   `FlattenConcat` then characterise `FlattenSeq`, of which the library states
   nothing that could be used here.
2. `SplitJoined`: splitting at a separator undoes joining with it, if no text has
   it, for the line breaks of a chunk and for the first five tabs of a record line
   alike. `SplitMore` is the step: one more text is one more place, behind all others.
3. `HexRoundTrip`, `RecordRoundTrip`, `ChunkRoundTrip`: bytes, lines, texts of
   chunks. A line is never empty and has no line break, which is why dropping empty
   lines, as verify and restore do, drops nothing (`NonEmptySame`).
4. `FormatInv`: every chunk is one of some records under the archive key, in either
   version (`Chunk`); what the archived chunks hold is what is archived, in order;
   what a backup was given is what its pending chunks hold and then the records
   whose lines it has (`Staged`). `ChunksFilled`, which keeps the byte counter
   equal to the size of the text, is part of it and inductive with it.

`FormatInv` speaks of all sequences of records, which TLC cannot enumerate; the runs
check the five properties that follow from it.

Every invariant and every safety property of the passing runs is proved.
Model-checked only: liveness (`LinesEventuallySeen`, `TerminatedLinesArchived`,
`ScheduleSettles`, `EventuallyMarked`, `RemoteCatchesUp`) and the fairness of
`ImplementsFairLedger`, which are out of the prover's reach, and the three
properties that are violated.

## Not modelled

- Several archives in one database, schema versions, and an archive that is moved:
  its rows are kept under its path, so a moved one would find none of them.
- Files in `tmp/`: a failed run leaves its staged chunks there for good. Nothing
  reads them.
- The durability of SQLite and of the file contents themselves: assumed.
- Collisions of the 64-bit FNV record ids: a collision would drop a record.
- A session file cut back and grown past its checkpoint between two backups:
  the size does not show it, and the lines before the checkpoint are not read.
- The primitives of cryptography and compression, argument parsing, path checks,
  formatting, the ops log: no state, or none that anything reads.
- What a power loss leaves of a restore's outputs: they are not synced.
- Power losses in `Publication`: neither the key's final name nor the remote's
  files are ever synced, and no document says that they survive one.
- `config.json` at the remote, staged keys and staged copies: nothing reads them.

## Plan

1. Done: `ArchiveLedger`, `Backup`, `BackupInvariant`, `BackupProofs`;
   `Collector`; `Monitor`, `MonitorProofs`.
2. Done: `Publication`, `PublicationProofs`.
3. Done: `Readers`, `ReadersProofs`; `ChunkFormat`; the import of TSV state in
   `Publication`.
4. Done: `ArchiveProofs` with the refinement, `CheckpointProofs`, `CollectorProofs`,
   and the rest of `ReadersProofs`.
5. Done: `ChunkFormatProofs`.
6. Done: `JsonText`; malformed lines in `Collector` and `CollectorProofs`.
