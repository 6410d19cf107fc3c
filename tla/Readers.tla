------------------------------ MODULE Readers ------------------------------
(***************************************************************************)
(* verify and restore beside running backups: run_verify_once of           *)
(* commands/verify.rs and run_restore_once of commands/restore.rs,         *)
(* composed with Backup.                                                   *)
(*                                                                         *)
(* Neither takes a lock.  A reader reads the manifest once and then the    *)
(* chunk of one line after the other, while backups publish, recovery      *)
(* removes chunks, the machine loses power, and chunk files come to harm.  *)
(* A restore keeps the bytes it has verified in a private snapshot, and    *)
(* begins to replace the files in its output directory when all of them    *)
(* are verified.  All restores here have the same output directory.        *)
(***************************************************************************)
EXTENDS Backup

CONSTANTS
    Reader,        \* invocations of verify and restore
    Restores,      \* those that are restores
    CodexSource,   \* the sources of provider codex; the others are claude's
    MaxDamaged     \* bound: chunk files that come to harm

ASSUME ReaderAssumption ==
    /\ Restores \subseteq Reader /\ None \notin Reader
    /\ CodexSource \subseteq Source
    /\ MaxDamaged \in Nat

VARIABLES
    damaged,   \* chunks whose file has other bytes than were archived
    shown,     \* shown[f]: the restore whose file has the name f, or None
    (* locals of a reader *)
    rpc,
    view,      \* the manifest entries it works from
    at,        \* how often the loop it is in has run
    snapshot,  \* the ciphertexts kept: whether they are those archived
    outputs,   \* outputs[r][f]: what restore r has written to file f
    (* what was so when the reader read the manifest *)
    seenAt, damagedAt

readerLocals == <<rpc, view, at, snapshot, outputs, seenAt, damagedAt>>
allVars      == <<vars, damaged, shown, readerLocals>>

-----------------------------------------------------------------------------
\* The record files in the order the code handles them, and the report.
Recorded == <<"canonical", "codex-raw", "claude-raw">>
Report   == "restore-report"
File     == Elems(Recorded) \cup {Report}

NoOutputs == [f \in Elems(Recorded) |-> <<>>]

\* A record as a file shows it when it does not come from verified bytes.
Garbled == <<None, 0, None>>

Ended == {"done", "rejected", "failed"}

ReadersInit ==
    /\ Init
    /\ damaged = {}
    /\ shown = [f \in File |-> None]
    /\ rpc = [r \in Reader |-> "idle"]
    /\ view = [r \in Reader |-> <<>>]
    /\ at = [r \in Reader |-> 0]
    /\ snapshot = [r \in Reader |-> <<>>]
    /\ outputs = [r \in Reader |-> NoOutputs]
    /\ seenAt = [r \in Reader |-> {}]
    /\ damagedAt = [r \in Reader |-> {}]

\* On to the next loop.
Enter(r, label) ==
    /\ rpc' = [rpc EXCEPT ![r] = label]
    /\ at' = [at EXCEPT ![r] = 0]

Again(r) ==
    /\ at' = [at EXCEPT ![r] = @ + 1]
    /\ UNCHANGED rpc

\* The reader ends, and its snapshot is removed.
End(r, how) ==
    /\ Enter(r, how)
    /\ view' = [view EXCEPT ![r] = <<>>]
    /\ snapshot' = [snapshot EXCEPT ![r] = <<>>]
    /\ outputs' = [outputs EXCEPT ![r] = NoOutputs]
    /\ seenAt' = [seenAt EXCEPT ![r] = {}]
    /\ damagedAt' = [damagedAt EXCEPT ![r] = {}]

-----------------------------------------------------------------------------
(* Verification, by both commands *)

\* load_manifest_entries.  The manifest is replaced by renames, so an open file
\* does not change while it is read.
LoadManifest(r) ==
    /\ rpc[r] = "idle"
    /\ Enter(r, "verify")
    /\ view' = [view EXCEPT ![r] = manifest]
    /\ seenAt' = [seenAt EXCEPT ![r] = seen]
    /\ damagedAt' = [damagedAt EXCEPT ![r] = damaged]
    /\ UNCHANGED <<vars, damaged, shown, snapshot, outputs>>

\* Whether the bytes of a chunk file are those archived.
Intact(c) == c \in chunks \ damaged

\* Mutated: the hashes of the bytes are not compared.
GenuineByName(r, n) ==
    /\ view[r][n].prev = LastChunk(SubSeq(view[r], 1, n - 1))
    /\ view[r][n].chunk \in chunks

\* Mutated: a chunk that is in use now is expected too.
GenuineAndCurrent(r, n) ==
    /\ view[r][n].prev = LastChunk(SubSeq(view[r], 1, n - 1))
    /\ Intact(view[r][n].chunk)
    /\ Len(view[r]) = Len(manifest)

\* Entry n continues the chain, its chunk is there, and the bytes read have the
\* hashes and the number of records that the entry gives.
Genuine(r, n) ==
    /\ view[r][n].prev = LastChunk(SubSeq(view[r], 1, n - 1))
    /\ Intact(view[r][n].chunk)

HasEntry(r) == rpc[r] = "verify" /\ at[r] < Len(view[r])

\* A restore keeps the bytes it has just verified.
VerifyEntry(r) ==
    /\ HasEntry(r) /\ Genuine(r, at[r] + 1)
    /\ Again(r)
    /\ snapshot' = [snapshot EXCEPT ![r] =
         IF r \in Restores THEN Append(@, Intact(view[r][at[r] + 1].chunk)) ELSE @]
    /\ UNCHANGED <<vars, damaged, shown, view, outputs, seenAt, damagedAt>>

RejectEntry(r) ==
    /\ HasEntry(r) /\ ~ Genuine(r, at[r] + 1)
    /\ End(r, "rejected")
    /\ UNCHANGED <<vars, damaged, shown>>

\* Mutated: the outputs are replaced while chunks are being verified.
VerifiedFirst(r) == rpc[r] = "verify" /\ at[r] <= 1

Verified(r) == rpc[r] = "verify" /\ at[r] = Len(view[r])

EndVerify(r) ==
    /\ Verified(r) /\ r \notin Restores
    /\ End(r, "done")
    /\ UNCHANGED <<vars, damaged, shown>>

-----------------------------------------------------------------------------
(* Restore *)

\* Mutated: verify goes on to write outputs too.
BeginOutputsAlways(r) ==
    /\ Verified(r)
    /\ Enter(r, "create")
    /\ UNCHANGED <<vars, damaged, shown, view, snapshot, outputs, seenAt, damagedAt>>

BeginOutputs(r) ==
    /\ Verified(r) /\ r \in Restores
    /\ Enter(r, "create")
    /\ UNCHANGED <<vars, damaged, shown, view, snapshot, outputs, seenAt, damagedAt>>

\* create_private_output: a new empty file takes the name, whatever had it.
CreateOutput(r) ==
    /\ rpc[r] = "create"
    /\ shown' = [shown EXCEPT ![Recorded[at[r] + 1]] = r]
    /\ IF at[r] + 1 < Len(Recorded) THEN Again(r) ELSE Enter(r, "write")
    /\ UNCHANGED <<vars, damaged, view, snapshot, outputs, seenAt, damagedAt>>

\* Mutated: the chunk file is read again.
KeptByName(r, n) == Intact(view[r][n].chunk)

\* What the snapshot has of chunk n.
Kept(r, n) == snapshot[r][n]

RecordsKept(r, n) == IF Kept(r, n) THEN view[r][n].recs ELSE {Garbled}

\* Mutated: records of claude's go to both raw files.
RoutedTwice(f, recs) ==
    IF f = "codex-raw" THEN recs ELSE recs \ {c \in recs : c[1] \in CodexSource}

\* Every record goes to canonical, and to the raw file of its provider.
Routed(f, recs) ==
    CASE f = "canonical"  -> recs
      [] f = "codex-raw"  -> {c \in recs : c[1] \in CodexSource}
      [] f = "claude-raw" -> {c \in recs : c[1] \notin CodexSource}

WriteChunk(r) ==
    /\ rpc[r] = "write" /\ at[r] < Len(snapshot[r])
    /\ outputs' = [outputs EXCEPT ![r] =
         [f \in Elems(Recorded) |-> Append(@[f], Routed(f, RecordsKept(r, at[r] + 1)))]]
    /\ Again(r)
    /\ UNCHANGED <<vars, damaged, shown, view, snapshot, seenAt, damagedAt>>

\* The snapshot is read to its end, and the buffered writers are flushed.
FlushOutputs(r) ==
    /\ rpc[r] = "write" /\ at[r] = Len(snapshot[r])
    /\ Enter(r, "report")
    /\ UNCHANGED <<vars, damaged, shown, view, snapshot, outputs, seenAt, damagedAt>>

\* The report takes its name before it is written.
CreateReport(r) ==
    /\ rpc[r] = "report" /\ at[r] = 0
    /\ shown' = [shown EXCEPT ![Report] = r]
    /\ Again(r)
    /\ UNCHANGED <<vars, damaged, view, snapshot, outputs, seenAt, damagedAt>>

WriteReport(r) ==
    /\ rpc[r] = "report" /\ at[r] = 1
    /\ End(r, "done")
    /\ UNCHANGED <<vars, damaged, shown>>

-----------------------------------------------------------------------------
(* Failures and the environment *)

\* A reader is killed, or another step of it fails.
FailReader(r) ==
    /\ rpc[r] \notin Ended \cup {"idle"}
    /\ End(r, "failed")
    /\ UNCHANGED <<vars, damaged, shown>>

\* Readers die with the machine.  Outputs are not synced: what a power loss
\* leaves of them is not modelled.
MachineStops ==
    /\ PowerLoss
    /\ shown' = [f \in File |-> None]
    /\ rpc' = [r \in Reader |-> IF rpc[r] \in Ended \cup {"idle"} THEN rpc[r] ELSE "failed"]
    /\ view' = [r \in Reader |-> <<>>]
    /\ at' = [r \in Reader |-> 0]
    /\ snapshot' = [r \in Reader |-> <<>>]
    /\ outputs' = [r \in Reader |-> NoOutputs]
    /\ seenAt' = [r \in Reader |-> {}]
    /\ damagedAt' = [r \in Reader |-> {}]
    /\ UNCHANGED damaged

\* A chunk file is overwritten or decays.  A chunk of a pending operation stays
\* out of this: to recovery it is the same whether it is damaged or missing.
DamageChunk(c) ==
    /\ Cardinality(damaged) < MaxDamaged
    /\ c \in (ChunksOf(manifest) \cap chunks) \ damaged
    /\ \A o \in ops : c \notin ChunksOf(pLines[o])
    /\ damaged' = damaged \cup {c}
    /\ UNCHANGED <<vars, shown, readerLocals>>

\* Backups, and the programs that write the session files.  What a backup makes
\* of a file that is cut back is Backup's matter: here files only grow.
ArchiveStep ==
    /\ \/ \E p \in Proc : Step(p) \/ Abort(p)
       \/ \E s \in Source, t \in Text : AppendLine(s, t)
    /\ UNCHANGED <<damaged, shown, readerLocals>>

VerifyStep(r) ==
    LoadManifest(r) \/ VerifyEntry(r) \/ RejectEntry(r) \/ EndVerify(r)

RestoreStep(r) ==
    \/ BeginOutputs(r) \/ CreateOutput(r)
    \/ WriteChunk(r) \/ FlushOutputs(r)
    \/ CreateReport(r) \/ WriteReport(r)

ReadersNext ==
    \/ ArchiveStep
    \/ MachineStops
    \/ \E c \in chunks : DamageChunk(c)
    \/ \E r \in Reader : VerifyStep(r) \/ RestoreStep(r) \/ FailReader(r)

ReadersSpec == ReadersInit /\ [][ReadersNext]_allVars

-----------------------------------------------------------------------------
(* Properties *)

ReadersTypeOK ==
    /\ TypeOK
    /\ damaged \subseteq ChunkId
    /\ shown \in [File -> Restores \cup {None}]
    /\ rpc \in [Reader -> Ended \cup {"idle", "verify", "create", "write", "report"}]
    /\ view \in [Reader -> Seq(Line)]
    /\ at \in [Reader -> Nat]
    /\ snapshot \in [Reader -> Seq(BOOLEAN)]
    /\ outputs \in [Reader -> [Elems(Recorded) -> Seq(SUBSET (Record \cup {Garbled}))]]
    /\ seenAt \in [Reader -> SUBSET Record]
    /\ damagedAt \in [Reader -> SUBSET ChunkId]

\* verify and restore, which hold no lock, cry wolf never: they reject only an
\* archive with a damaged chunk, or one in which a power loss took the chunk of
\* an operation that recovery has not finished.  No interleaving with a backup
\* that publishes or undoes an operation is a reason.
RejectionsJustified ==
    [][\A r \in Reader : rpc[r] # "rejected" /\ rpc'[r] = "rejected" =>
         \E l \in Elems(view[r]) :
            \/ l.chunk \in damaged
            \/ l.chunk \notin chunks /\ \E o \in ops : l \in Elems(pLines[o])]_allVars

\* A reader that ends well has met no damage that was there when it began.
DamageDetected ==
    [][\A r \in Reader : rpc[r] # "done" /\ rpc'[r] = "done" =>
         ChunksOf(view[r]) \cap damagedAt[r] = {}]_allVars

\* A finished restore has every record that a backup, when the restore began,
\* would have skipped, each once, and each in the raw file of one provider.
RestoreIsWhole ==
    [][\A r \in Restores : rpc[r] # "done" /\ rpc'[r] = "done" =>
         LET all == outputs[r]["canonical"]
             codex == outputs[r]["codex-raw"]  claude == outputs[r]["claude-raw"]
         IN  /\ seenAt[r] \subseteq UNION Elems(all)
             /\ \A i, j \in DOMAIN all : i # j => all[i] \cap all[j] = {}
             /\ \A i \in DOMAIN all : /\ codex[i] \cup claude[i] = all[i]
                                      /\ codex[i] \cap claude[i] = {}]_allVars

\* A restore writes the bytes it has verified, whatever becomes of the chunk
\* files in the meantime (restore_uses_verified_chunks_after_archive_changes).
OnlyVerifiedWritten ==
    \A r \in Restores, f \in Elems(Recorded) : \A i \in DOMAIN outputs[r][f] :
        Garbled \notin outputs[r][f][i]

\* The files of an earlier restore are replaced only by one that has verified
\* all it is going to write: a restore that finds damage leaves them alone.
FormerOutputsKept ==
    [][\A f \in File : shown'[f] # shown[f] /\ shown'[f] # None =>
         LET r == shown'[f]
         IN  Len(snapshot[r]) = Len(view[r]) /\ ChunksOf(view[r]) \cap damagedAt[r] = {}]_allVars
=============================================================================
