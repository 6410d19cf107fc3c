----------------------------- MODULE BackupProofs -----------------------------
(***************************************************************************)
(* Proofs about Backup, for any number of processes, sources, operations   *)
(* and lines, with and without power losses and truncations.  The argument *)
(* is the inductive invariant IInv of BackupInvariant: types first, then   *)
(* its other parts action by action, then the properties it implies.       *)
(***************************************************************************)
EXTENDS BackupInvariant, SequenceTheorems, TLAPS

(* Types *)

\* The empty scan and the empty set of rows have their types.
LEMMA NoScanType == NoScan \in ScanState /\ NoRows \in Rows
BY BoundAssumption, SMT DEF NoScan, ScanState, NoRows, Rows, NoRow

\* The initial state is well typed.
LEMMA TypeInit == Init => TypeOK
BY NoScanType, BoundAssumption, SMT DEF Init, TypeOK, Working

\* The two partial updates of a scan keep it well typed.
LEMMA ScanUpdates ==
    ASSUME scan \in [Proc -> ScanState], NEW p \in Proc
    PROVE  /\ \A found \in SUBSET Source :
                [scan EXCEPT ![p].todo = found] \in [Proc -> ScanState]
           /\ scan[p].pos + 1 \in 0..MaxLines =>
                [scan EXCEPT ![p].pos = @ + 1] \in [Proc -> ScanState]
<1>1. ASSUME NEW found \in SUBSET Source
      PROVE  [scan EXCEPT ![p].todo = found] \in [Proc -> ScanState]
  <2> DEFINE r == [scan[p] EXCEPT !.todo = found]
  <2>1. r \in ScanState
    BY SMT DEF ScanState
  <2>2. [scan EXCEPT ![p].todo = found] = [scan EXCEPT ![p] = r]
    OBVIOUS
  <2> HIDE DEF r
  <2> QED
    BY <2>1, <2>2
<1>2. ASSUME scan[p].pos + 1 \in 0..MaxLines
      PROVE  [scan EXCEPT ![p].pos = @ + 1] \in [Proc -> ScanState]
  <2> DEFINE r == [scan[p] EXCEPT !.pos = @ + 1]
  <2>1. r \in ScanState
    BY <1>2, SMT DEF ScanState
  <2>2. [scan EXCEPT ![p].pos = @ + 1] = [scan EXCEPT ![p] = r]
    OBVIOUS
  <2> HIDE DEF r
  <2> QED
    BY <2>1, <2>2
<1> QED
  BY <1>1, <1>2

\* The line a run chains its first line to is a chunk or the beginning.
LEMMA LastChunkType ==
    ASSUME NEW m \in Seq(Line)
    PROVE  LastChunk(m) \in ChunkId \cup {Genesis}
<1>1. CASE m # <<>>
  <2>1. m[Len(m)] \in Line
    BY <1>1, SMT
  <2> QED
    BY <1>1, <2>1, SMT DEF LastChunk, Line
<1> QED
  BY <1>1, SMT DEF LastChunk

\* The manifest lines made from staged chunks are lines.
LEMMA ManifestLinesType ==
    ASSUME NEW o \in OpId, NEW batch \in Seq(SUBSET Record),
           NEW prev0 \in ChunkId \cup {Genesis}
    PROVE  ManifestLines(o, batch, prev0) \in Seq(Line)
<1> DEFINE line(k) == [chunk |-> <<o, k>>,
                       prev  |-> IF k = 1 THEN prev0 ELSE <<o, k - 1>>,
                       recs  |-> batch[k]]
<1>1. ASSUME NEW k \in 1..Len(batch) PROVE line(k) \in Line
  <2>1. <<o, k>> \in ChunkId /\ batch[k] \in SUBSET Record
    BY SMT DEF ChunkId
  <2>2. k # 1 => <<o, k - 1>> \in ChunkId
    BY SMT DEF ChunkId
  <2> QED
    BY <2>1, <2>2 DEF Line
<1>2. ManifestLines(o, batch, prev0) = [k \in 1..Len(batch) |-> line(k)]
  BY DEF ManifestLines
<1>3. Len(batch) \in Nat
  OBVIOUS
<1> HIDE DEF line
<1> QED
  BY <1>1, <1>2, <1>3, SMT

\* A process that leaves leaves well-typed locals behind.
LEMMA ExitTypes ==
    ASSUME TypeOK, NEW p \in Proc, Exit(p)
    PROVE  /\ lock' \in Proc \cup {None}
           /\ pc' \in [Proc -> Working \cup {"idle", "recover", "done"}]
           /\ op' \in [Proc -> OpId \cup {None}]
           /\ \A q \in Proc : pc'[q] \in Working => op'[q] # None
           /\ queue' \in [Proc -> SUBSET OpId]
           /\ scan' \in [Proc -> ScanState]
           /\ staged' \in [Proc -> Seq(SUBSET Record)]
           /\ cur' \in [Proc -> SUBSET Record]
           /\ lines' \in [Proc -> Seq(Line)]
<1>1. /\ lock' \in Proc \cup {None}
      /\ pc' \in [Proc -> Working \cup {"idle", "recover", "done"}]
      /\ op' \in [Proc -> OpId \cup {None}]
      /\ \A q \in Proc : pc'[q] \in Working => op'[q] # None
  BY SMT DEF TypeOK, Exit, Goto, Working
<1> QED
  BY <1>1, NoScanType, SMT DEF TypeOK, Exit

\* A process that leaves touches nothing but its locals and the lock.
LEMMA ExitStep ==
    ASSUME TypeOK, NEW p \in Proc, Exit(p), UNCHANGED <<content, sqlVars, diskVars>>
    PROVE  TypeOK'
<1>1. /\ lock' \in Proc \cup {None}
      /\ pc' \in [Proc -> Working \cup {"idle", "recover", "done"}]
      /\ op' \in [Proc -> OpId \cup {None}]
      /\ \A q \in Proc : pc'[q] \in Working => op'[q] # None
      /\ queue' \in [Proc -> SUBSET OpId]
      /\ scan' \in [Proc -> ScanState]
      /\ staged' \in [Proc -> Seq(SUBSET Record)]
      /\ cur' \in [Proc -> SUBSET Record]
      /\ lines' \in [Proc -> Seq(Line)]
  BY ExitTypes
<1>2. /\ content' = content /\ ckpt' = ckpt /\ seen' = seen /\ ops' = ops
      /\ pSeen' = pSeen /\ pCkpt' = pCkpt /\ pLines' = pLines
      /\ chunks' = chunks /\ dChunks' = dChunks
      /\ manifest' = manifest /\ dManifest' = dManifest
  BY DEF sqlVars, diskVars
<1> QED
  BY <1>1, <1>2 DEF TypeOK

\* Every step of the command, of the machine and of the writers of the session
\* files keeps the types.
LEMMA TypeStep == TypeOK /\ [Next]_vars => TypeOK'
<1> SUFFICES ASSUME TypeOK, [Next]_vars PROVE TypeOK'
  OBVIOUS
<1>7. ASSUME NEW p \in Proc, NEW o \in OpId, RecoverMissingChunk(p, o) PROVE TypeOK'
  BY <1>7, ExitStep DEF RecoverMissingChunk
<1>23. ASSUME NEW p \in Proc, Return(p) \/ Abort(p) PROVE TypeOK'
  BY <1>23, ExitStep DEF Return, Abort
<1> USE NoScanType, BoundAssumption, NoneAssumption DEF TypeOK
<1>1. CASE UNCHANGED vars
  BY <1>1, SMT DEF vars, sqlVars, diskVars, localVars
<1>2. ASSUME NEW p \in Proc, LockArchive(p) PROVE TypeOK'
  BY <1>2, SMT DEF LockArchive, Goto, sqlVars, diskVars, Working
<1>3. ASSUME NEW p \in Proc, NEW o \in OpId, RecoverDiscardChunk(p, o) PROVE TypeOK'
  BY <1>3, SMT DEF RecoverDiscardChunk, sqlVars, localVars
<1>4. ASSUME NEW p \in Proc, NEW o \in OpId, RecoverDiscardRows(p, o) PROVE TypeOK'
  BY <1>4, SMT DEF RecoverDiscardRows, DeleteRows, diskVars
<1>5. ASSUME NEW p \in Proc, NEW o \in OpId, RecoverSync(p, o) PROVE TypeOK'
  BY <1>5, SMT DEF RecoverSync, SyncFiles, Goto, sqlVars, Working
<1>6. ASSUME NEW p \in Proc, RecoverCommit(p) PROVE TypeOK'
  <2>1. op[p] \in OpId
    BY <1>6, SMT DEF RecoverCommit, Working
  <2> QED
    BY <1>6, <2>1, SMT DEF RecoverCommit, CommitRows, DeleteRows, Upsert, Rows, Goto, diskVars, Working
<1>8. ASSUME NEW p \in Proc, NEW o \in OpId, BeginBackup(p, o) PROVE TypeOK'
  <2>1. PICK found \in SUBSET Source : scan' = [scan EXCEPT ![p].todo = found]
    BY <1>8 DEF BeginBackup
  <2>2. scan' \in [Proc -> ScanState]
    BY <2>1, ScanUpdates
  <2> QED
    BY <1>8, <2>2, SMT DEF BeginBackup, Goto, diskVars, Working
<1>9. ASSUME NEW p \in Proc, NEW s \in Source, StatSource(p, s) PROVE TypeOK'
  <2>1. scan' \in [Proc -> ScanState]
    BY <1>9, SMT DEF StatSource, StartOffset, ScanState
  <2> QED
    BY <1>9, <2>1, SMT DEF StatSource, sqlVars, diskVars
<1>10. ASSUME NEW p \in Proc, OpenSource(p) PROVE TypeOK'
  <2>1. scan' \in [Proc -> ScanState]
    BY <1>10, SMT DEF OpenSource, LeastOf, ScanState
  <2> QED
    BY <1>10, <2>1, SMT DEF OpenSource, sqlVars, diskVars
<1>11. ASSUME NEW p \in Proc, StageRecord(p) PROVE TypeOK'
  <2>1. op[p] \in OpId
    BY <1>11, SMT DEF StageRecord, HasLine, Working
  <2>2. scan[p] \in ScanState
    OBVIOUS
  <2>3. /\ scan[p].src \in Source
        /\ scan[p].pos + 1 \in 1..Len(content[scan[p].src])
        /\ scan[p].pos + 1 \in 0..MaxLines
    BY <1>11, <2>2, SMT DEF StageRecord, HasLine, LeastOf, ScanState
  <2>4. NextRecord(p) \in Record
    BY <2>3, SMT DEF NextRecord, Record
  <2>5. scan' \in [Proc -> ScanState]
    BY <1>11, <2>2, <2>3, ScanUpdates DEF StageRecord
  <2>6. staged' \in [Proc -> Seq(SUBSET Record)] /\ cur' \in [Proc -> SUBSET Record]
    <3> DEFINE r == NextRecord(p)
    <3>1. cur[p] \in SUBSET Record /\ cur[p] \cup {r} \in SUBSET Record
          /\ {r} \in SUBSET Record
      BY <2>4
    <3>2. Push(p, r)
      BY <1>11 DEF StageRecord
    <3> HIDE DEF r
    <3>3. CASE cur' = [cur EXCEPT ![p] = @ \cup {r}] /\ staged' = staged
      BY <3>1, <3>3
    <3>4. CASE /\ staged' = [staged EXCEPT ![p] = Append(@, cur[p])]
               /\ cur' = [cur EXCEPT ![p] = {r}]
      <4>1. Append(staged[p], cur[p]) \in Seq(SUBSET Record)
        BY <3>1
      <4> QED
        BY <3>1, <3>4, <4>1
    <3> QED
      BY <3>2, <3>3, <3>4 DEF Push
  <2>7. pSeen' \in [OpId -> SUBSET Record]
    BY <1>11, <2>1, <2>4, SMT DEF StageRecord
  <2> QED
    BY <1>11, <2>5, <2>6, <2>7, SMT DEF StageRecord, diskVars
<1>12. ASSUME NEW p \in Proc, SkipRecord(p) PROVE TypeOK'
  <2>1. scan[p] \in ScanState
    OBVIOUS
  <2>2. scan[p].pos + 1 \in 0..MaxLines
    BY <1>12, <2>1, SMT DEF SkipRecord, HasLine, LeastOf, ScanState
  <2>3. scan' \in [Proc -> ScanState]
    BY <1>12, <2>2, ScanUpdates DEF SkipRecord
  <2> QED
    BY <1>12, <2>3, SMT DEF SkipRecord, sqlVars, diskVars
<1>13. ASSUME NEW p \in Proc, CloseSource(p) PROVE TypeOK'
  <2>1. scan[p] \in ScanState
    OBVIOUS
  <2>2. [scan[p].upd EXCEPT ![scan[p].src] = scan[p].pos] \in Rows
    BY <1>13, <2>1, SMT DEF CloseSource, ScanState, Rows
  <2>3. scan' \in [Proc -> ScanState]
    BY <1>13, <2>1, <2>2, SMT DEF CloseSource, ScanState, NoRow
  <2> QED
    BY <1>13, <2>3, SMT DEF CloseSource, sqlVars, diskVars
<1>14. ASSUME NEW p \in Proc, FinishScan(p) PROVE TypeOK'
  BY <1>14, SMT DEF FinishScan, Goto, sqlVars, diskVars, Working
<1>15. ASSUME NEW p \in Proc, CommitCheckpoints(p) PROVE TypeOK'
  BY <1>15, SMT DEF CommitCheckpoints, Upsert, Rows, ScanState, Goto, diskVars, Working
<1>16. ASSUME NEW p \in Proc, DropOperation(p) PROVE TypeOK'
  <2>1. op[p] \in OpId
    BY <1>16, SMT DEF DropOperation, Working
  <2> QED
    BY <1>16, <2>1, SMT DEF DropOperation, DeleteRows, Goto, diskVars, Working
<1>17. ASSUME NEW p \in Proc, StageCheckpoints(p) PROVE TypeOK'
  <2>1. op[p] \in OpId
    BY <1>17, SMT DEF StageCheckpoints, Working
  <2>2. scan[p].upd \in Rows
    BY SMT DEF ScanState
  <2> QED
    BY <1>17, <2>1, <2>2, SMT DEF StageCheckpoints, Goto, diskVars, Working
<1>18. ASSUME NEW p \in Proc, StageLines(p) PROVE TypeOK'
  <2>1. op[p] \in OpId
    BY <1>18, SMT DEF StageLines, Working
  <2>2. ManifestLines(op[p], staged[p], LastChunk(manifest)) \in Seq(Line)
    BY <2>1, LastChunkType, ManifestLinesType
  <2> QED
    BY <1>18, <2>1, <2>2, SMT DEF StageLines, Goto, diskVars, Working
<1>19. ASSUME NEW p \in Proc, PromoteChunk(p) PROVE TypeOK'
  <2>1. PICK k \in DOMAIN lines[p] : chunks' = chunks \cup {lines[p][k].chunk}
    BY <1>19 DEF PromoteChunk
  <2>2. lines[p][k] \in Line
    BY <2>1, SMT
  <2>3. chunks' \subseteq ChunkId
    BY <2>1, <2>2, SMT DEF Line
  <2> QED
    BY <1>19, <2>3, SMT DEF PromoteChunk, sqlVars, localVars
<1>20. ASSUME NEW p \in Proc, ReplaceManifest(p) PROVE TypeOK'
  BY <1>20, SMT DEF ReplaceManifest, AppendedManifest, Goto, sqlVars, Working
<1>21. ASSUME NEW p \in Proc, SyncMetadata(p) PROVE TypeOK'
  BY <1>21, SMT DEF SyncMetadata, SyncFiles, Goto, sqlVars, Working
<1>22. ASSUME NEW p \in Proc, CommitPending(p) PROVE TypeOK'
  <2>1. op[p] \in OpId
    BY <1>22, SMT DEF CommitPending, Working
  <2> QED
    BY <1>22, <2>1, SMT DEF CommitPending, CommitRows, DeleteRows, Upsert, Rows, Goto, diskVars, Working
<1>24. CASE PowerLoss
  <2>1. chunks' \subseteq ChunkId /\ dChunks' \subseteq ChunkId
    BY <1>24, SMT DEF PowerLoss
  <2> QED
    BY <1>24, <2>1, SMT DEF PowerLoss, sqlVars, Working
<1>25. ASSUME NEW s \in Source, NEW t \in Text, AppendLine(s, t) PROVE TypeOK'
  BY <1>25, SMT DEF AppendLine, sqlVars, diskVars, localVars
<1>26. ASSUME NEW s \in Source, TruncateSource(s) PROVE TypeOK'
  BY <1>26, SMT DEF TruncateSource, sqlVars, diskVars, localVars
<1>27. QED
  BY <1>1, <1>2, <1>3, <1>4, <1>5, <1>6, <1>7, <1>8, <1>9, <1>10, <1>11, <1>12, <1>13,
     <1>14, <1>15, <1>16, <1>17, <1>18, <1>19, <1>20, <1>21, <1>22, <1>23, <1>24, <1>25,
     <1>26 DEF Next, Step, Recover, Scan, Publish, Environment

-----------------------------------------------------------------------------
(* Sequences and manifest lines *)

\* The elements of a concatenation.
LEMMA ElemsConcat ==
    ASSUME NEW S, NEW a \in Seq(S), NEW b \in Seq(S)
    PROVE  Elems(a \o b) = Elems(a) \cup Elems(b)
<1>1. ASSUME NEW i \in DOMAIN (a \o b)
      PROVE  (a \o b)[i] \in Elems(a) \cup Elems(b)
  <2>1. CASE i <= Len(a)
    BY <2>1, SMT DEF Elems
  <2>2. CASE i > Len(a)
    <3>1. i - Len(a) \in DOMAIN b /\ (a \o b)[i] = b[i - Len(a)]
      BY <2>2, SMT
    <3> QED
      BY <3>1 DEF Elems
  <2> QED
    BY <2>1, <2>2, SMT
<1>2. ASSUME NEW i \in DOMAIN a PROVE a[i] \in Elems(a \o b)
  <2>1. i \in DOMAIN (a \o b) /\ (a \o b)[i] = a[i]
    BY SMT
  <2> QED
    BY <2>1 DEF Elems
<1>3. ASSUME NEW i \in DOMAIN b PROVE b[i] \in Elems(a \o b)
  <2>1. Len(a) + i \in DOMAIN (a \o b) /\ (a \o b)[Len(a) + i] = b[i]
    BY SMT
  <2> QED
    BY <2>1 DEF Elems
<1> QED
  BY <1>1, <1>2, <1>3 DEF Elems

\* The elements of a sequence with one more at its end.
LEMMA ElemsAppend ==
    ASSUME NEW S, NEW a \in Seq(S), NEW x \in S
    PROVE  Elems(Append(a, x)) = Elems(a) \cup {x}
<1>1. Append(a, x) = a \o <<x>> /\ <<x>> \in Seq(S)
  BY SMT
<1>2. Elems(<<x>>) = {x}
  BY SMT DEF Elems
<1>3. Elems(a \o <<x>>) = Elems(a) \cup Elems(<<x>>)
  BY <1>1, ElemsConcat
<1> QED
  BY <1>1, <1>2, <1>3

\* The manifest lines of a run name its chunks in order and hold exactly the
\* records of its staged chunks.
LEMMA ManifestLinesShape ==
    ASSUME NEW o, NEW batch \in Seq(SUBSET Record), NEW prev0
    PROVE  /\ \A k \in DOMAIN ManifestLines(o, batch, prev0) :
                ManifestLines(o, batch, prev0)[k].chunk = <<o, k>>
           /\ RecsOf(ManifestLines(o, batch, prev0)) = UNION Elems(batch)
           /\ batch # <<>> => ManifestLines(o, batch, prev0) # <<>>
<1> DEFINE ls == ManifestLines(o, batch, prev0)
<1>1. DOMAIN ls = DOMAIN batch
  BY DEF ManifestLines
<1>2. \A k \in DOMAIN ls : ls[k].chunk = <<o, k>> /\ ls[k].recs = batch[k]
  BY DEF ManifestLines
<1>3. batch # <<>> => ls # <<>>
  <2> HAVE batch # <<>>
  <2>1. 1 \in DOMAIN ls
    BY <1>1, SMT
  <2> QED
    BY <2>1, SMT
<1>4. {l.recs : l \in Elems(ls)} = Elems(batch)
  BY <1>1, <1>2 DEF Elems
<1> QED
  BY <1>2, <1>3, <1>4 DEF RecsOf

-----------------------------------------------------------------------------
(* The inductive invariant *)

\* Initially nothing is pending, published or seen.
LEMMA InvInit == Init => IInv
<1> SUFFICES ASSUME Init PROVE IInv
  OBVIOUS
<1>1. TypeOK
  BY TypeInit
<1>2. LockInv /\ OpsInv /\ AtMostOnePending
  BY SMT DEF Init, LockInv, OpsInv, AtMostOnePending, Working
<1>3. LineNames /\ LineOwner /\ StagedInLines
  BY SMT DEF Init, LineNames, LineOwner, StagedInLines
<1>4. StagedInChunks /\ PublishInv
  BY SMT DEF Init, StagedInChunks, PublishInv
<1>5. SeenRecoverable
  BY DEF Init, SeenRecoverable
<1> QED
  BY <1>1, <1>2, <1>3, <1>4, <1>5 DEF IInv

\* Every step preserves the invariant.  The steps that matter: a commit finds
\* the records of its operation in synced lines and chunks; recovery never
\* removes the chunk of a published line; a power loss keeps what was synced.
LEMMA InvStep == IInv /\ [Next]_vars => IInv'
<1> SUFFICES ASSUME IInv, [Next]_vars, TypeOK' PROVE IInv'
  BY TypeStep DEF IInv
<1>0. TypeOK /\ LockInv /\ OpsInv /\ AtMostOnePending /\ LineNames /\ LineOwner
      /\ StagedInLines /\ StagedInChunks /\ PublishInv /\ SeenRecoverable
  BY DEF IInv
<1> USE <1>0, NoneAssumption DEF TypeOK
<1>1. ASSUME NEW p \in Proc, LockArchive(p) PROVE IInv'
  <2> USE DEF LockArchive, LockFree, Goto, sqlVars, diskVars, localVars
  <2>1. pc[p] # "idle" => \A q \in Proc \ {p} : pc[q] = "idle"
    BY DEF LockInv
  <2>2. LockInv' /\ OpsInv' /\ AtMostOnePending'
    BY <1>1, <2>1, SMT DEF LockInv, OpsInv, AtMostOnePending, Working
  <2>3. LineNames' /\ LineOwner' /\ StagedInLines'
    BY <1>1, SMT DEF OpsInv, LineNames, LineOwner, StagedInLines, Working
  <2>4. StagedInChunks' /\ PublishInv'
    BY <1>1, <2>1, SMT DEF StagedInChunks, PublishInv, OpsInv, Working
  <2>5. SeenRecoverable'
    BY <1>1, SMT DEF SeenRecoverable, OpsInv, PublishInv
  <2> QED
    BY <2>2, <2>3, <2>4, <2>5 DEF IInv
<1>2. ASSUME NEW p \in Proc, NEW o \in OpId, RecoverDiscardChunk(p, o) PROVE IInv'
  <2> USE DEF RecoverDiscardChunk, Abandoned, Resumable, Goto, sqlVars, diskVars, localVars
  <2>1. pc[p] # "idle" => \A q \in Proc \ {p} : pc[q] = "idle"
    BY DEF LockInv
  <2>2. LockInv' /\ OpsInv' /\ AtMostOnePending'
    BY <1>2, <2>1, SMT DEF LockInv, OpsInv, AtMostOnePending, Working
  <2>3. LineNames' /\ LineOwner' /\ StagedInLines'
    BY <1>2, SMT DEF OpsInv, LineNames, LineOwner, StagedInLines, Working
  <2>4. StagedInChunks' /\ PublishInv'
    <3>1. pc[p] = "recover" /\ UNCHANGED <<pc, op, lines, cur, staged, pLines, pSeen>>
      BY <1>2
    <3>2. \A q \in Proc \ {p} : pc'[q] = "idle"
      BY <2>1, <3>1
    <3> QED
      BY <3>1, <3>2 DEF StagedInChunks, PublishInv
  <2>5. SeenRecoverable'
    <3>1. PICK c \in Abandoned(o) : chunks' = chunks \ {c}
      BY <1>2
    <3>2. PICK m \in Elems(pLines[o]) \ Elems(manifest) : c = m.chunk
      BY <3>1 DEF Abandoned
    <3>3. PICK j \in DOMAIN pLines[o] : m = pLines[o][j]
      BY <3>2 DEF Elems
    <3>4. c = <<o, j>>
      BY <3>2, <3>3 DEF LineNames
    <3>5. ASSUME NEW l \in Elems(manifest) \cap Elems(dManifest)
          PROVE  l.chunk # c
      <4> SUFFICES ASSUME l.chunk = c PROVE FALSE
        OBVIOUS
      <4>1. o \in ops
        BY <1>2 DEF OpsInv
      <4>2. l \in Elems(pLines[o])
        <5>1. l.chunk[1] = o
          BY <3>4, SMT
        <5> QED
          BY <4>1, <5>1 DEF LineOwner
      <4>3. PICK k \in DOMAIN pLines[o] : l = pLines[o][k]
        BY <4>2 DEF Elems
      <4>4. k = j
        BY <3>4, <4>3 DEF LineNames
      <4> QED
        BY <3>2, <3>3, <4>3, <4>4
    <3>6. UNCHANGED <<seen, manifest, dManifest, dChunks>>
      BY <1>2
    <3> QED
      BY <3>1, <3>5, <3>6 DEF SeenRecoverable
  <2> QED
    BY <2>2, <2>3, <2>4, <2>5 DEF IInv
<1>3. ASSUME NEW p \in Proc, NEW o \in OpId, RecoverDiscardRows(p, o) PROVE IInv'
  <2> USE DEF RecoverDiscardRows, DeleteRows, Resumable, Abandoned, Goto, sqlVars, diskVars, localVars
  <2>1. pc[p] # "idle" => \A q \in Proc \ {p} : pc[q] = "idle"
    BY DEF LockInv
  <2>2. LockInv' /\ OpsInv' /\ AtMostOnePending'
    BY <1>3, <2>1, SMT DEF LockInv, OpsInv, AtMostOnePending, Working
  <2>3. LineNames' /\ LineOwner' /\ StagedInLines'
    BY <1>3, SMT DEF OpsInv, LineNames, LineOwner, StagedInLines, Working
  <2>4. StagedInChunks' /\ PublishInv'
    <3>1. pc[p] = "recover" /\ UNCHANGED <<pc, op, lines, cur, staged>>
      BY <1>3
    <3>2. \A q \in Proc \ {p} : pc'[q] = "idle"
      BY <2>1, <3>1
    <3> QED
      BY <3>1, <3>2 DEF StagedInChunks, PublishInv
  <2>5. SeenRecoverable'
    BY <1>3, SMT DEF SeenRecoverable, OpsInv, PublishInv
  <2> QED
    BY <2>2, <2>3, <2>4, <2>5 DEF IInv
<1>4. ASSUME NEW p \in Proc, NEW o \in OpId, RecoverSync(p, o) PROVE IInv'
  <2> USE DEF RecoverSync, SyncFiles, Resumable, Readable, Goto, sqlVars, diskVars, localVars
  <2>1. pc[p] # "idle" => \A q \in Proc \ {p} : pc[q] = "idle"
    BY DEF LockInv
  <2>2. LockInv' /\ OpsInv' /\ AtMostOnePending'
    BY <1>4, <2>1, SMT DEF LockInv, OpsInv, AtMostOnePending, Working
  <2>3. LineNames' /\ LineOwner' /\ StagedInLines'
    BY <1>4, SMT DEF OpsInv, LineNames, LineOwner, StagedInLines, Working
  <2>4. StagedInChunks' /\ PublishInv'
    BY <1>4, <2>1, SMT DEF StagedInChunks, PublishInv, OpsInv, Working
  <2>5. SeenRecoverable'
    <3>1. UNCHANGED <<seen, manifest, chunks>> /\ dManifest' = manifest /\ dChunks' = chunks
      BY <1>4
    <3> QED
      BY <3>1 DEF SeenRecoverable
  <2> QED
    BY <2>2, <2>3, <2>4, <2>5 DEF IInv
<1>5. ASSUME NEW p \in Proc, RecoverCommit(p) PROVE IInv'
  <2> USE DEF RecoverCommit, CommitRows, DeleteRows, Goto, sqlVars, diskVars, localVars
  <2>1. pc[p] # "idle" => \A q \in Proc \ {p} : pc[q] = "idle"
    BY DEF LockInv
  <2>2. LockInv' /\ OpsInv' /\ AtMostOnePending'
    BY <1>5, <2>1, SMT DEF LockInv, OpsInv, AtMostOnePending, Working
  <2>3. LineNames' /\ LineOwner' /\ StagedInLines'
    BY <1>5, SMT DEF OpsInv, LineNames, LineOwner, StagedInLines, Working
  <2>4. StagedInChunks' /\ PublishInv'
    BY <1>5, <2>1, SMT DEF StagedInChunks, PublishInv, OpsInv, Working
  <2>5. SeenRecoverable'
    <3>1. op[p] \in ops /\ pLines[op[p]] # <<>>
      BY <1>5, SMT DEF OpsInv, PublishInv, Working
    <3>2. pSeen[op[p]] \subseteq RecsOf(pLines[op[p]])
      BY <3>1 DEF StagedInLines
    <3>3. /\ Elems(pLines[op[p]]) \subseteq Elems(manifest) \cap Elems(dManifest)
          /\ ChunksOf(pLines[op[p]]) \subseteq chunks \cap dChunks
      BY <1>5, SMT DEF PublishInv
    <3>4. \A r \in pSeen[op[p]] : \E l \in Elems(pLines[op[p]]) : r \in l.recs
      BY <3>2 DEF RecsOf
    <3>5. \A l \in Elems(pLines[op[p]]) : l.chunk \in chunks \cap dChunks
      BY <3>3 DEF ChunksOf
    <3>6. /\ seen' = seen \cup pSeen[op[p]]
          /\ UNCHANGED <<manifest, dManifest, chunks, dChunks>>
      BY <1>5
    <3> QED
      BY <3>3, <3>4, <3>5, <3>6 DEF SeenRecoverable
  <2> QED
    BY <2>2, <2>3, <2>4, <2>5 DEF IInv
<1>6. ASSUME NEW p \in Proc, NEW o \in OpId, RecoverMissingChunk(p, o) PROVE IInv'
  <2> USE DEF RecoverMissingChunk, Exit, Goto, sqlVars, diskVars, localVars
  <2>1. pc[p] # "idle" => \A q \in Proc \ {p} : pc[q] = "idle"
    BY DEF LockInv
  <2>2. LockInv' /\ OpsInv' /\ AtMostOnePending'
    BY <1>6, <2>1, SMT DEF LockInv, OpsInv, AtMostOnePending, Working
  <2>3. LineNames' /\ LineOwner' /\ StagedInLines'
    BY <1>6, SMT DEF OpsInv, LineNames, LineOwner, StagedInLines, Working
  <2>4. StagedInChunks' /\ PublishInv'
    BY <1>6, <2>1, SMT DEF StagedInChunks, PublishInv, OpsInv, Working
  <2>5. SeenRecoverable'
    BY <1>6, SMT DEF SeenRecoverable, OpsInv, PublishInv
  <2> QED
    BY <2>2, <2>3, <2>4, <2>5 DEF IInv
<1>7. ASSUME NEW p \in Proc, NEW o \in OpId, BeginBackup(p, o) PROVE IInv'
  <2> USE DEF BeginBackup, Fresh, Goto, sqlVars, diskVars, localVars
  <2>1. pc[p] # "idle" => \A q \in Proc \ {p} : pc[q] = "idle"
    BY DEF LockInv
  <2>2. LockInv' /\ OpsInv' /\ AtMostOnePending'
    BY <1>7, <2>1, SMT DEF LockInv, OpsInv, AtMostOnePending, Working
  <2>3. LineNames' /\ LineOwner' /\ StagedInLines'
    BY <1>7, SMT DEF OpsInv, LineNames, LineOwner, StagedInLines, Working
  <2>4. StagedInChunks' /\ PublishInv'
    BY <1>7, <2>1, SMT DEF StagedInChunks, PublishInv, OpsInv, Working
  <2>5. SeenRecoverable'
    BY <1>7, SMT DEF SeenRecoverable, OpsInv, PublishInv
  <2> QED
    BY <2>2, <2>3, <2>4, <2>5 DEF IInv
<1>8. ASSUME NEW p \in Proc, NEW s \in Source, StatSource(p, s) PROVE IInv'
  <2> USE DEF StatSource, Goto, sqlVars, diskVars, localVars
  <2>1. pc[p] # "idle" => \A q \in Proc \ {p} : pc[q] = "idle"
    BY DEF LockInv
  <2>2. LockInv' /\ OpsInv' /\ AtMostOnePending'
    BY <1>8, <2>1, SMT DEF LockInv, OpsInv, AtMostOnePending, Working
  <2>3. LineNames' /\ LineOwner' /\ StagedInLines'
    BY <1>8, SMT DEF OpsInv, LineNames, LineOwner, StagedInLines, Working
  <2>4. StagedInChunks' /\ PublishInv'
    BY <1>8, <2>1, SMT DEF StagedInChunks, PublishInv, OpsInv, Working
  <2>5. SeenRecoverable'
    BY <1>8, SMT DEF SeenRecoverable, OpsInv, PublishInv
  <2> QED
    BY <2>2, <2>3, <2>4, <2>5 DEF IInv
<1>9. ASSUME NEW p \in Proc, OpenSource(p) PROVE IInv'
  <2> USE DEF OpenSource, Goto, sqlVars, diskVars, localVars
  <2>1. pc[p] # "idle" => \A q \in Proc \ {p} : pc[q] = "idle"
    BY DEF LockInv
  <2>2. LockInv' /\ OpsInv' /\ AtMostOnePending'
    BY <1>9, <2>1, SMT DEF LockInv, OpsInv, AtMostOnePending, Working
  <2>3. LineNames' /\ LineOwner' /\ StagedInLines'
    BY <1>9, SMT DEF OpsInv, LineNames, LineOwner, StagedInLines, Working
  <2>4. StagedInChunks' /\ PublishInv'
    BY <1>9, <2>1, SMT DEF StagedInChunks, PublishInv, OpsInv, Working
  <2>5. SeenRecoverable'
    BY <1>9, SMT DEF SeenRecoverable, OpsInv, PublishInv
  <2> QED
    BY <2>2, <2>3, <2>4, <2>5 DEF IInv
<1>10. ASSUME NEW p \in Proc, StageRecord(p) PROVE IInv'
  <2> USE DEF StageRecord, HasLine, Goto, sqlVars, diskVars, localVars
  <2>1. pc[p] # "idle" => \A q \in Proc \ {p} : pc[q] = "idle"
    BY DEF LockInv
  <2>2. LockInv' /\ OpsInv' /\ AtMostOnePending'
    BY <1>10, <2>1, SMT DEF LockInv, OpsInv, AtMostOnePending, Working
  <2>3. LineNames' /\ LineOwner' /\ StagedInLines'
    <3>1. op[p] \in ops /\ pLines[op[p]] = <<>>
      BY <1>10, SMT DEF OpsInv, StagedInChunks, Working
    <3>2. \A o \in OpId \ {op[p]} : pSeen'[o] = pSeen[o]
      BY <1>10
    <3>3. UNCHANGED <<ops, pLines, manifest, dManifest>>
      BY <1>10
    <3>4. LineNames' /\ LineOwner'
      BY <3>3 DEF LineNames, LineOwner
    <3>5. StagedInLines'
      BY <3>1, <3>2, <3>3 DEF StagedInLines
    <3> QED
      BY <3>4, <3>5
  <2>4. StagedInChunks' /\ PublishInv'
    <3> DEFINE r == NextRecord(p)
    <3>1. /\ pc[p] = "scan" /\ op[p] \in OpId
          /\ pSeen'[op[p]] = pSeen[op[p]] \cup {r}
          /\ UNCHANGED <<pc, op, pLines>>
      BY <1>10, SMT DEF Working
    <3>2. Push(p, r)
      BY <1>10
    <3> HIDE DEF r
    <3>3. /\ pLines[op[p]] = <<>>
          /\ pSeen[op[p]] \subseteq cur[p] \cup UNION Elems(staged[p])
      BY <3>1, SMT DEF StagedInChunks
    <3>4. cur'[p] \cup UNION Elems(staged'[p]) = cur[p] \cup {r} \cup UNION Elems(staged[p])
      <4>1. CASE cur' = [cur EXCEPT ![p] = @ \cup {r}] /\ staged' = staged
        BY <4>1
      <4>2. CASE /\ staged' = [staged EXCEPT ![p] = Append(@, cur[p])]
                 /\ cur' = [cur EXCEPT ![p] = {r}]
        <5>1. staged'[p] = Append(staged[p], cur[p])
          BY <4>2
        <5>2. staged[p] \in Seq(SUBSET Record) /\ cur[p] \in SUBSET Record
          OBVIOUS
        <5>3. Elems(staged'[p]) = Elems(staged[p]) \cup {cur[p]}
          BY <5>1, <5>2, ElemsAppend
        <5> QED
          BY <4>2, <5>3
      <4> QED
        BY <3>2, <4>1, <4>2 DEF Push
    <3>5. \A q \in Proc \ {p} : pc'[q] = "idle"
      BY <2>1, <3>1
    <3>6. StagedInChunks'
      BY <3>1, <3>3, <3>4, <3>5 DEF StagedInChunks
    <3>7. PublishInv'
      BY <3>1, <3>5 DEF PublishInv
    <3> QED
      BY <3>6, <3>7
  <2>5. SeenRecoverable'
    BY <1>10, SMT DEF SeenRecoverable, OpsInv, PublishInv
  <2> QED
    BY <2>2, <2>3, <2>4, <2>5 DEF IInv
<1>11. ASSUME NEW p \in Proc, SkipRecord(p) PROVE IInv'
  <2> USE DEF SkipRecord, HasLine, Goto, sqlVars, diskVars, localVars
  <2>1. pc[p] # "idle" => \A q \in Proc \ {p} : pc[q] = "idle"
    BY DEF LockInv
  <2>2. LockInv' /\ OpsInv' /\ AtMostOnePending'
    BY <1>11, <2>1, SMT DEF LockInv, OpsInv, AtMostOnePending, Working
  <2>3. LineNames' /\ LineOwner' /\ StagedInLines'
    BY <1>11, SMT DEF OpsInv, LineNames, LineOwner, StagedInLines, Working
  <2>4. StagedInChunks' /\ PublishInv'
    BY <1>11, <2>1, SMT DEF StagedInChunks, PublishInv, OpsInv, Working
  <2>5. SeenRecoverable'
    BY <1>11, SMT DEF SeenRecoverable, OpsInv, PublishInv
  <2> QED
    BY <2>2, <2>3, <2>4, <2>5 DEF IInv
<1>12. ASSUME NEW p \in Proc, CloseSource(p) PROVE IInv'
  <2> USE DEF CloseSource, Goto, sqlVars, diskVars, localVars
  <2>1. pc[p] # "idle" => \A q \in Proc \ {p} : pc[q] = "idle"
    BY DEF LockInv
  <2>2. LockInv' /\ OpsInv' /\ AtMostOnePending'
    BY <1>12, <2>1, SMT DEF LockInv, OpsInv, AtMostOnePending, Working
  <2>3. LineNames' /\ LineOwner' /\ StagedInLines'
    BY <1>12, SMT DEF OpsInv, LineNames, LineOwner, StagedInLines, Working
  <2>4. StagedInChunks' /\ PublishInv'
    BY <1>12, <2>1, SMT DEF StagedInChunks, PublishInv, OpsInv, Working
  <2>5. SeenRecoverable'
    BY <1>12, SMT DEF SeenRecoverable, OpsInv, PublishInv
  <2> QED
    BY <2>2, <2>3, <2>4, <2>5 DEF IInv
<1>13. ASSUME NEW p \in Proc, FinishScan(p) PROVE IInv'
  <2> USE DEF FinishScan, Goto, sqlVars, diskVars, localVars
  <2>1. pc[p] # "idle" => \A q \in Proc \ {p} : pc[q] = "idle"
    BY DEF LockInv
  <2>2. LockInv' /\ OpsInv' /\ AtMostOnePending'
    BY <1>13, <2>1, SMT DEF LockInv, OpsInv, AtMostOnePending, Working
  <2>3. LineNames' /\ LineOwner' /\ StagedInLines'
    BY <1>13, SMT DEF OpsInv, LineNames, LineOwner, StagedInLines, Working
  <2>4. StagedInChunks' /\ PublishInv'
    <3>1. /\ pc[p] = "scan" /\ op[p] \in OpId
          /\ UNCHANGED <<op, pLines, pSeen>>
      BY <1>13, SMT DEF Working
    <3>2. UNION Elems(staged'[p]) = cur[p] \cup UNION Elems(staged[p])
      <4>1. CASE cur[p] = {}
        BY <1>13, <4>1
      <4>2. CASE cur[p] # {}
        <5>1. staged'[p] = Append(staged[p], cur[p])
          BY <1>13, <4>2
        <5>2. staged[p] \in Seq(SUBSET Record) /\ cur[p] \in SUBSET Record
          OBVIOUS
        <5>3. Elems(staged'[p]) = Elems(staged[p]) \cup {cur[p]}
          BY <5>1, <5>2, ElemsAppend
        <5> QED
          BY <5>3
      <4> QED
        BY <4>1, <4>2
    <3>3. /\ pc'[p] \in {"stage", "lines"} => pc'[p] = "stage" /\ staged'[p] # <<>>
          /\ pc'[p] \in {"stage", "nothing"}
          /\ \A q \in Proc \ {p} : pc'[q] = "idle"
      BY <1>13, <2>1
    <3>4. /\ pLines[op[p]] = <<>>
          /\ pSeen[op[p]] \subseteq cur[p] \cup UNION Elems(staged[p])
      BY <3>1 DEF StagedInChunks
    <3>5. StagedInChunks'
      BY <3>1, <3>2, <3>3, <3>4 DEF StagedInChunks
    <3>6. PublishInv'
      BY <3>1, <3>3 DEF PublishInv
    <3> QED
      BY <3>5, <3>6
  <2>5. SeenRecoverable'
    BY <1>13, SMT DEF SeenRecoverable, OpsInv, PublishInv
  <2> QED
    BY <2>2, <2>3, <2>4, <2>5 DEF IInv
<1>14. ASSUME NEW p \in Proc, CommitCheckpoints(p) PROVE IInv'
  <2> USE DEF CommitCheckpoints, Goto, sqlVars, diskVars, localVars
  <2>1. pc[p] # "idle" => \A q \in Proc \ {p} : pc[q] = "idle"
    BY DEF LockInv
  <2>2. LockInv' /\ OpsInv' /\ AtMostOnePending'
    BY <1>14, <2>1, SMT DEF LockInv, OpsInv, AtMostOnePending, Working
  <2>3. LineNames' /\ LineOwner' /\ StagedInLines'
    BY <1>14, SMT DEF OpsInv, LineNames, LineOwner, StagedInLines, Working
  <2>4. StagedInChunks' /\ PublishInv'
    BY <1>14, <2>1, SMT DEF StagedInChunks, PublishInv, OpsInv, Working
  <2>5. SeenRecoverable'
    BY <1>14, SMT DEF SeenRecoverable, OpsInv, PublishInv
  <2> QED
    BY <2>2, <2>3, <2>4, <2>5 DEF IInv
<1>15. ASSUME NEW p \in Proc, DropOperation(p) PROVE IInv'
  <2> USE DEF DropOperation, DeleteRows, Goto, sqlVars, diskVars, localVars
  <2>1. pc[p] # "idle" => \A q \in Proc \ {p} : pc[q] = "idle"
    BY DEF LockInv
  <2>2. LockInv' /\ OpsInv' /\ AtMostOnePending'
    BY <1>15, <2>1, SMT DEF LockInv, OpsInv, AtMostOnePending, Working
  <2>3. LineNames' /\ LineOwner' /\ StagedInLines'
    BY <1>15, SMT DEF OpsInv, LineNames, LineOwner, StagedInLines, Working
  <2>4. StagedInChunks' /\ PublishInv'
    BY <1>15, <2>1, SMT DEF StagedInChunks, PublishInv, OpsInv, Working
  <2>5. SeenRecoverable'
    BY <1>15, SMT DEF SeenRecoverable, OpsInv, PublishInv
  <2> QED
    BY <2>2, <2>3, <2>4, <2>5 DEF IInv
<1>16. ASSUME NEW p \in Proc, StageCheckpoints(p) PROVE IInv'
  <2> USE DEF StageCheckpoints, Goto, sqlVars, diskVars, localVars
  <2>1. pc[p] # "idle" => \A q \in Proc \ {p} : pc[q] = "idle"
    BY DEF LockInv
  <2>2. LockInv' /\ OpsInv' /\ AtMostOnePending'
    BY <1>16, <2>1, SMT DEF LockInv, OpsInv, AtMostOnePending, Working
  <2>3. LineNames' /\ LineOwner' /\ StagedInLines'
    BY <1>16, SMT DEF OpsInv, LineNames, LineOwner, StagedInLines, Working
  <2>4. StagedInChunks' /\ PublishInv'
    BY <1>16, <2>1, SMT DEF StagedInChunks, PublishInv, OpsInv, Working
  <2>5. SeenRecoverable'
    BY <1>16, SMT DEF SeenRecoverable, OpsInv, PublishInv
  <2> QED
    BY <2>2, <2>3, <2>4, <2>5 DEF IInv
<1>17. ASSUME NEW p \in Proc, StageLines(p) PROVE IInv'
  <2> USE DEF StageLines, Goto, sqlVars, diskVars, localVars
  <2>1. pc[p] # "idle" => \A q \in Proc \ {p} : pc[q] = "idle"
    BY DEF LockInv
  <2>2. LockInv' /\ OpsInv' /\ AtMostOnePending'
    BY <1>17, <2>1, SMT DEF LockInv, OpsInv, AtMostOnePending, Working
  <2>3. LineNames' /\ LineOwner' /\ StagedInLines'
    <3>1. /\ op[p] \in OpId /\ op[p] \in ops /\ pLines[op[p]] = <<>>
          /\ pSeen[op[p]] \subseteq UNION Elems(staged[p])
      BY <1>17, SMT DEF OpsInv, StagedInChunks, Working
    <3>2. /\ pLines' = [pLines EXCEPT ![op[p]] =
                         ManifestLines(op[p], staged[p], LastChunk(manifest))]
          /\ UNCHANGED <<ops, pSeen, manifest, dManifest>>
      BY <1>17
    <3> DEFINE ls == ManifestLines(op[p], staged[p], LastChunk(manifest))
    <3>3. /\ \A k \in DOMAIN ls : ls[k].chunk = <<op[p], k>>
          /\ RecsOf(ls) = UNION Elems(staged[p])
      <4>1. staged[p] \in Seq(SUBSET Record)
        OBVIOUS
      <4> HIDE <1>0 DEF TypeOK
      <4> QED
        BY <4>1, ManifestLinesShape
    <3>4. \A l \in Elems(manifest) \cup Elems(dManifest) : l.chunk[1] # op[p]
      <4>1. Elems(pLines[op[p]]) = {}
        BY <3>1, SMT DEF Elems
      <4> QED
        BY <3>1, <4>1 DEF LineOwner
    <3> HIDE DEF ls
    <3>5. /\ pLines'[op[p]] = ls
          /\ \A o \in OpId \ {op[p]} : pLines'[o] = pLines[o]
      BY <3>1, <3>2 DEF ls
    <3>6. LineNames'
      <4>1. \A k \in DOMAIN pLines'[op[p]] : pLines'[op[p]][k].chunk = <<op[p], k>>
        BY <3>3, <3>5
      <4>2. \A o \in OpId \ {op[p]} : \A k \in DOMAIN pLines'[o] :
               pLines'[o][k].chunk = <<o, k>>
        BY <3>5 DEF LineNames
      <4> QED
        BY <4>1, <4>2 DEF LineNames
    <3>7. LineOwner'
      BY <3>2, <3>4, <3>5 DEF LineOwner
    <3>8. StagedInLines'
      BY <3>1, <3>2, <3>3, <3>5 DEF StagedInLines
    <3> QED
      BY <3>6, <3>7, <3>8
  <2>4. StagedInChunks' /\ PublishInv'
    <3>1. /\ op[p] \in OpId /\ pc[p] = "lines"
          /\ UNCHANGED op
          /\ pc' = [pc EXCEPT ![p] = "promote"]
          /\ lines'[p] = ManifestLines(op[p], staged[p], LastChunk(manifest))
          /\ pLines'[op[p]] = lines'[p]
      BY <1>17, SMT DEF Working
    <3>2. staged[p] # <<>>
      BY <3>1 DEF StagedInChunks
    <3>3. lines'[p] # <<>>
      <4>1. staged[p] \in Seq(SUBSET Record)
        OBVIOUS
      <4> HIDE <1>0 DEF TypeOK
      <4>2. ManifestLines(op[p], staged[p], LastChunk(manifest)) # <<>>
        BY <3>2, <4>1, ManifestLinesShape
      <4> QED
        BY <3>1, <4>2
    <3>4. pc'[p] = "promote" /\ \A q \in Proc \ {p} : pc'[q] = "idle"
      BY <2>1, <3>1
    <3> QED
      BY <3>1, <3>3, <3>4 DEF StagedInChunks, PublishInv
  <2>5. SeenRecoverable'
    BY <1>17, SMT DEF SeenRecoverable, OpsInv, PublishInv
  <2> QED
    BY <2>2, <2>3, <2>4, <2>5 DEF IInv
<1>18. ASSUME NEW p \in Proc, PromoteChunk(p) PROVE IInv'
  <2> USE DEF PromoteChunk, Goto, sqlVars, diskVars, localVars
  <2>1. pc[p] # "idle" => \A q \in Proc \ {p} : pc[q] = "idle"
    BY DEF LockInv
  <2>2. LockInv' /\ OpsInv' /\ AtMostOnePending'
    BY <1>18, <2>1, SMT DEF LockInv, OpsInv, AtMostOnePending, Working
  <2>3. LineNames' /\ LineOwner' /\ StagedInLines'
    BY <1>18, SMT DEF OpsInv, LineNames, LineOwner, StagedInLines, Working
  <2>4. StagedInChunks' /\ PublishInv'
    BY <1>18, <2>1, SMT DEF StagedInChunks, PublishInv, OpsInv, Working
  <2>5. SeenRecoverable'
    BY <1>18, SMT DEF SeenRecoverable, OpsInv, PublishInv
  <2> QED
    BY <2>2, <2>3, <2>4, <2>5 DEF IInv
<1>19. ASSUME NEW p \in Proc, ReplaceManifest(p) PROVE IInv'
  <2> USE DEF ReplaceManifest, AppendedManifest, AllPromoted, Goto, sqlVars, diskVars, localVars
  <2>1. pc[p] # "idle" => \A q \in Proc \ {p} : pc[q] = "idle"
    BY DEF LockInv
  <2>2. LockInv' /\ OpsInv' /\ AtMostOnePending'
    BY <1>19, <2>1, SMT DEF LockInv, OpsInv, AtMostOnePending, Working
  <2>3. LineNames' /\ LineOwner' /\ StagedInLines'
    <3>1. /\ op[p] \in OpId /\ ops = {op[p]} /\ lines[p] = pLines[op[p]]
      <4>1. pc[p] = "promote"
        BY <1>19
      <4>2. op[p] \in OpId
        BY <4>1, SMT DEF Working
      <4>3. ops = {op[p]}
        <5>1. pc[p] \in Working \ {"recommit"}
          BY <4>1 DEF Working
        <5> QED
          BY <5>1 DEF OpsInv
      <4> QED
        BY <4>1, <4>2, <4>3 DEF PublishInv
    <3>2. Elems(manifest') = Elems(manifest) \cup Elems(lines[p])
      BY <1>19, ElemsConcat
    <3>3. UNCHANGED <<ops, pLines, pSeen, dManifest>>
      BY <1>19
    <3>4. LineNames' /\ StagedInLines'
      BY <3>3 DEF LineNames, StagedInLines
    <3>5. LineOwner'
      BY <3>1, <3>2, <3>3 DEF LineOwner
    <3> QED
      BY <3>4, <3>5
  <2>4. StagedInChunks' /\ PublishInv'
    <3>1. /\ op[p] \in OpId /\ lines[p] # <<>> /\ lines[p] = pLines[op[p]]
          /\ ChunksOf(lines[p]) \subseteq chunks
          /\ UNCHANGED <<op, pLines, pSeen, chunks, dChunks, dManifest>>
          /\ pc' = [pc EXCEPT ![p] = "sync"]
      BY <1>19, SMT DEF PublishInv, Working
    <3>2. Elems(manifest') = Elems(manifest) \cup Elems(lines[p])
      BY <1>19, ElemsConcat
    <3>3. \A q \in Proc : q # p => pc'[q] = "idle"
      BY <1>19, <2>1, <3>1
    <3> QED
      BY <3>1, <3>2, <3>3, SMT DEF StagedInChunks, PublishInv
  <2>5. SeenRecoverable'
    <3>1. Elems(manifest') = Elems(manifest) \cup Elems(lines[p])
      BY <1>19, ElemsConcat
    <3>2. UNCHANGED <<seen, dManifest, chunks, dChunks>>
      BY <1>19
    <3> QED
      BY <3>1, <3>2 DEF SeenRecoverable
  <2> QED
    BY <2>2, <2>3, <2>4, <2>5 DEF IInv
<1>20. ASSUME NEW p \in Proc, SyncMetadata(p) PROVE IInv'
  <2> USE DEF SyncMetadata, SyncFiles, Goto, sqlVars, diskVars, localVars
  <2>1. pc[p] # "idle" => \A q \in Proc \ {p} : pc[q] = "idle"
    BY DEF LockInv
  <2>2. LockInv' /\ OpsInv' /\ AtMostOnePending'
    BY <1>20, <2>1, SMT DEF LockInv, OpsInv, AtMostOnePending, Working
  <2>3. LineNames' /\ LineOwner' /\ StagedInLines'
    BY <1>20, SMT DEF OpsInv, LineNames, LineOwner, StagedInLines, Working
  <2>4. StagedInChunks' /\ PublishInv'
    BY <1>20, <2>1, SMT DEF StagedInChunks, PublishInv, OpsInv, Working
  <2>5. SeenRecoverable'
    <3>1. UNCHANGED <<seen, manifest, chunks>> /\ dManifest' = manifest /\ dChunks' = chunks
      BY <1>20
    <3> QED
      BY <3>1 DEF SeenRecoverable
  <2> QED
    BY <2>2, <2>3, <2>4, <2>5 DEF IInv
<1>21. ASSUME NEW p \in Proc, CommitPending(p) PROVE IInv'
  <2> USE DEF CommitPending, CommitRows, DeleteRows, Goto, sqlVars, diskVars, localVars
  <2>1. pc[p] # "idle" => \A q \in Proc \ {p} : pc[q] = "idle"
    BY DEF LockInv
  <2>2. LockInv' /\ OpsInv' /\ AtMostOnePending'
    BY <1>21, <2>1, SMT DEF LockInv, OpsInv, AtMostOnePending, Working
  <2>3. LineNames' /\ LineOwner' /\ StagedInLines'
    BY <1>21, SMT DEF OpsInv, LineNames, LineOwner, StagedInLines, Working
  <2>4. StagedInChunks' /\ PublishInv'
    BY <1>21, <2>1, SMT DEF StagedInChunks, PublishInv, OpsInv, Working
  <2>5. SeenRecoverable'
    <3>1. op[p] \in ops /\ pLines[op[p]] # <<>>
      BY <1>21, SMT DEF OpsInv, PublishInv, Working
    <3>2. pSeen[op[p]] \subseteq RecsOf(pLines[op[p]])
      BY <3>1 DEF StagedInLines
    <3>3. /\ Elems(pLines[op[p]]) \subseteq Elems(manifest) \cap Elems(dManifest)
          /\ ChunksOf(pLines[op[p]]) \subseteq chunks \cap dChunks
      BY <1>21, SMT DEF PublishInv
    <3>4. \A r \in pSeen[op[p]] : \E l \in Elems(pLines[op[p]]) : r \in l.recs
      BY <3>2 DEF RecsOf
    <3>5. \A l \in Elems(pLines[op[p]]) : l.chunk \in chunks \cap dChunks
      BY <3>3 DEF ChunksOf
    <3>6. /\ seen' = seen \cup pSeen[op[p]]
          /\ UNCHANGED <<manifest, dManifest, chunks, dChunks>>
      BY <1>21
    <3> QED
      BY <3>3, <3>4, <3>5, <3>6 DEF SeenRecoverable
  <2> QED
    BY <2>2, <2>3, <2>4, <2>5 DEF IInv
<1>22. ASSUME NEW p \in Proc, Return(p) PROVE IInv'
  <2> USE DEF Return, Exit, Goto, sqlVars, diskVars, localVars
  <2>1. pc[p] # "idle" => \A q \in Proc \ {p} : pc[q] = "idle"
    BY DEF LockInv
  <2>2. LockInv' /\ OpsInv' /\ AtMostOnePending'
    BY <1>22, <2>1, SMT DEF LockInv, OpsInv, AtMostOnePending, Working
  <2>3. LineNames' /\ LineOwner' /\ StagedInLines'
    BY <1>22, SMT DEF OpsInv, LineNames, LineOwner, StagedInLines, Working
  <2>4. StagedInChunks' /\ PublishInv'
    BY <1>22, <2>1, SMT DEF StagedInChunks, PublishInv, OpsInv, Working
  <2>5. SeenRecoverable'
    BY <1>22, SMT DEF SeenRecoverable, OpsInv, PublishInv
  <2> QED
    BY <2>2, <2>3, <2>4, <2>5 DEF IInv
<1>23. ASSUME NEW p \in Proc, Abort(p) PROVE IInv'
  <2> USE DEF Abort, Exit, Goto, sqlVars, diskVars, localVars
  <2>1. pc[p] # "idle" => \A q \in Proc \ {p} : pc[q] = "idle"
    BY DEF LockInv
  <2>2. LockInv' /\ OpsInv' /\ AtMostOnePending'
    BY <1>23, <2>1, SMT DEF LockInv, OpsInv, AtMostOnePending, Working
  <2>3. LineNames' /\ LineOwner' /\ StagedInLines'
    BY <1>23, SMT DEF OpsInv, LineNames, LineOwner, StagedInLines, Working
  <2>4. StagedInChunks' /\ PublishInv'
    BY <1>23, <2>1, SMT DEF StagedInChunks, PublishInv, OpsInv, Working
  <2>5. SeenRecoverable'
    BY <1>23, SMT DEF SeenRecoverable, OpsInv, PublishInv
  <2> QED
    BY <2>2, <2>3, <2>4, <2>5 DEF IInv
<1>24. CASE PowerLoss
  <2>1. /\ \A q \in Proc : pc'[q] = "idle"
        /\ UNCHANGED <<ops, pSeen, pLines, seen>>
    BY <1>24 DEF PowerLoss, sqlVars
  <2>2. manifest' \in {manifest, dManifest} /\ dManifest' = manifest'
    BY <1>24 DEF PowerLoss
  <2>3. chunks \cap dChunks \subseteq chunks' /\ dChunks' = chunks'
    BY <1>24 DEF PowerLoss
  <2>4. LockInv' /\ OpsInv' /\ AtMostOnePending'
    BY <2>1, SMT DEF LockInv, OpsInv, AtMostOnePending, Working
  <2>5. LineNames' /\ LineOwner' /\ StagedInLines'
    BY <2>1, <2>2 DEF LineNames, LineOwner, StagedInLines
  <2>6. StagedInChunks' /\ PublishInv'
    BY <2>1 DEF StagedInChunks, PublishInv
  <2>7. SeenRecoverable'
    BY <2>1, <2>2, <2>3 DEF SeenRecoverable
  <2> QED
    BY <2>4, <2>5, <2>6, <2>7 DEF IInv
<1>25. ASSUME UNCHANGED <<lock, sqlVars, diskVars, localVars>> PROVE IInv'
  BY <1>25 DEF sqlVars, diskVars, localVars, IInv, LockInv, OpsInv, AtMostOnePending,
     LineNames, LineOwner, StagedInLines, StagedInChunks, PublishInv, SeenRecoverable
<1>26. ASSUME NEW s \in Source, NEW t \in Text, AppendLine(s, t) PROVE IInv'
  BY <1>25, <1>26 DEF AppendLine
<1>27. ASSUME NEW s \in Source, TruncateSource(s) PROVE IInv'
  BY <1>25, <1>27 DEF TruncateSource
<1>28. CASE UNCHANGED vars
  BY <1>25, <1>28 DEF vars
<1> QED
  BY <1>1, <1>2, <1>3, <1>4, <1>5, <1>6, <1>7, <1>8, <1>9, <1>10, <1>11, <1>12, <1>13,
     <1>14, <1>15, <1>16, <1>17, <1>18, <1>19, <1>20, <1>21, <1>22, <1>23, <1>24, <1>26,
     <1>27, <1>28 DEF Next, Step, Recover, Scan, Publish, Environment

-----------------------------------------------------------------------------
(* Theorems *)

\* IInv is an invariant of the command.
THEOREM Invariance == Spec => []IInv
<1>1. IInv /\ [Next]_vars => IInv'
  BY InvStep
<1> QED
  BY InvInit, <1>1, PTL DEF Spec

\* The variables keep their types, and a process at work on an operation has
\* one: stage_pending_seen_id and the commits never run without an operation id.
THEOREM TypeCorrect == Spec => []TypeOK
<1>1. IInv => TypeOK
  BY DEF IInv
<1> QED
  BY Invariance, <1>1, PTL

\* A record that later backups skip is in a synced manifest line whose chunk is
\* synced, at every moment, whatever was killed or lost before.
THEOREM SeenIsRecoverable == Spec => []SeenRecoverable
<1>1. IInv => SeenRecoverable
  BY DEF IInv
<1> QED
  BY Invariance, <1>1, PTL

\* Recovery never has to choose between operations: there is at most one.
THEOREM OnePending == Spec => []AtMostOnePending
<1>1. IInv => AtMostOnePending
  BY DEF IInv
<1> QED
  BY Invariance, <1>1, PTL
=============================================================================
