---------------------------- MODULE ArchiveProofs ----------------------------
(***************************************************************************)
(* More proofs about Backup: what the manifest, as it is and as a power    *)
(* loss would leave it, has to do with the pending operation, with         *)
(* seen_ids and with the chunks.  The argument is ArchiveInv of            *)
(* BackupInvariant, which rests on IInv.                                   *)
(***************************************************************************)
EXTENDS BackupProofs, FiniteSetTheorems

(* Lines and batches *)

\* A chain goes on over lines that are chained to its last chunk.
LEMMA ChainedConcat ==
    ASSUME NEW a \in Seq(Line), NEW b \in Seq(Line),
           ChainedTo(a, Genesis), ChainedTo(b, LastChunk(a))
    PROVE  ChainedTo(a \o b, Genesis)
<1> DEFINE m == a \o b
<1>1. Len(m) = Len(a) + Len(b) /\ Len(a) \in Nat /\ Len(b) \in Nat
      /\ DOMAIN m = 1..Len(m) /\ DOMAIN a = 1..Len(a) /\ DOMAIN b = 1..Len(b)
  BY SMT
<1>2. /\ \A i \in 1..Len(a) : m[i] = a[i]
      /\ \A i \in (Len(a) + 1)..Len(m) : m[i] = b[i - Len(a)]
  BY SMT
<1>3. a = <<>> <=> Len(a) = 0
  BY SMT
<1> HIDE DEF m
<1> SUFFICES ASSUME NEW k \in 1..Len(m)
             PROVE  m[k].prev = IF k = 1 THEN Genesis ELSE m[k - 1].chunk
  BY <1>1 DEF ChainedTo, m
<1>4. CASE k <= Len(a)
  <2>1. a[k].prev = IF k = 1 THEN Genesis ELSE a[k - 1].chunk
    BY <1>1, <1>4, SMT DEF ChainedTo
  <2> QED
    BY <1>1, <1>2, <1>4, <2>1, SMT
<1>5. CASE k = Len(a) + 1
  <2>1. b[1].prev = LastChunk(a)
    BY <1>1, <1>5, SMT DEF ChainedTo
  <2>2. LastChunk(a) = IF k = 1 THEN Genesis ELSE a[k - 1].chunk
    BY <1>1, <1>3, <1>5, SMT DEF LastChunk
  <2> QED
    BY <1>1, <1>2, <1>5, <2>1, <2>2, SMT
<1>6. CASE k > Len(a) + 1
  <2> DEFINE j == k - Len(a)
  <2>1. j \in 2..Len(b) /\ j - 1 = (k - 1) - Len(a)
    BY <1>1, <1>6, SMT
  <2>2. b[j].prev = b[j - 1].chunk
    BY <1>1, <2>1, SMT DEF ChainedTo
  <2>3. m[k] = b[j] /\ m[k - 1] = b[j - 1]
    BY <1>1, <1>2, <1>6, <2>1, SMT
  <2> QED
    BY <1>1, <1>6, <2>2, <2>3, SMT
<1> QED
  BY <1>1, <1>4, <1>5, <1>6, SMT

\* Two lists with lines of their own, which share no record and no chunk, make
\* one.
LEMMA OwnConcat ==
    ASSUME NEW a \in Seq(Line), NEW b \in Seq(Line), OwnBatches(a), OwnBatches(b),
           \A x \in Elems(a), y \in Elems(b) : x.recs \cap y.recs = {} /\ x.chunk # y.chunk
    PROVE  OwnBatches(a \o b)
<1> DEFINE m == a \o b
<1>1. Len(m) = Len(a) + Len(b) /\ Len(a) \in Nat /\ Len(b) \in Nat
      /\ DOMAIN m = 1..Len(m) /\ DOMAIN a = 1..Len(a) /\ DOMAIN b = 1..Len(b)
  BY SMT
<1>2. /\ \A i \in 1..Len(a) : m[i] = a[i]
      /\ \A i \in (Len(a) + 1)..Len(m) : i - Len(a) \in 1..Len(b) /\ m[i] = b[i - Len(a)]
  BY SMT
<1> HIDE DEF m
<1>3. ASSUME NEW i \in 1..Len(m)
      PROVE  \/ i \in DOMAIN a /\ m[i] = a[i]
             \/ i - Len(a) \in DOMAIN b /\ m[i] = b[i - Len(a)]
  <2>1. CASE i <= Len(a)
    BY <1>1, <1>2, <2>1, SMT
  <2>2. CASE i > Len(a)
    BY <1>1, <1>2, <2>2, SMT
  <2> QED
    BY <1>1, <2>1, <2>2, SMT
<1>4. ASSUME NEW i \in 1..Len(m) PROVE m[i].recs # {}
  <2>1. (\A k \in DOMAIN a : a[k].recs # {}) /\ (\A k \in DOMAIN b : b[k].recs # {})
    BY DEF OwnBatches
  <2> QED
    BY <1>3, <2>1
<1>5. ASSUME NEW i \in 1..Len(m), NEW j \in 1..Len(m), i # j
      PROVE  m[i].recs \cap m[j].recs = {} /\ m[i].chunk # m[j].chunk
  <2>1. CASE i \in DOMAIN a /\ m[i] = a[i] /\ j \in DOMAIN a /\ m[j] = a[j]
    BY <1>5, <2>1 DEF OwnBatches
  <2>2. CASE i \in DOMAIN a /\ m[i] = a[i] /\ j - Len(a) \in DOMAIN b /\ m[j] = b[j - Len(a)]
    BY <2>2 DEF Elems
  <2>3. CASE i - Len(a) \in DOMAIN b /\ m[i] = b[i - Len(a)] /\ j \in DOMAIN a /\ m[j] = a[j]
    BY <2>3 DEF Elems
  <2>4. CASE /\ i - Len(a) \in DOMAIN b /\ m[i] = b[i - Len(a)]
             /\ j - Len(a) \in DOMAIN b /\ m[j] = b[j - Len(a)]
    <3>1. i - Len(a) # j - Len(a)
      BY <1>1, <1>5, SMT
    <3> QED
      BY <2>4, <3>1 DEF OwnBatches
  <2> QED
    BY <1>3, <2>1, <2>2, <2>3, <2>4
<1> QED
  BY <1>1, <1>4, <1>5 DEF OwnBatches, m

\* The lines a run makes from its staged chunks are chained to the line they are
\* to follow, and have chunks and records of their own.
LEMMA ManifestLinesOwn ==
    ASSUME NEW o \in OpId, NEW batch \in Seq(SUBSET Record), NEW prev0, Disjoint(batch)
    PROVE  /\ ChainedTo(ManifestLines(o, batch, prev0), prev0)
           /\ OwnBatches(ManifestLines(o, batch, prev0))
<1> DEFINE ls == ManifestLines(o, batch, prev0)
<1>1. DOMAIN ls = 1..Len(batch) /\ DOMAIN batch = 1..Len(batch) /\ Len(batch) \in Nat
  BY SMT DEF ManifestLines
<1>2. \A k \in 1..Len(batch) :
        /\ ls[k].chunk = <<o, k>> /\ ls[k].recs = batch[k]
        /\ ls[k].prev = IF k = 1 THEN prev0 ELSE <<o, k - 1>>
  BY DEF ManifestLines
<1>5. /\ \A i \in 1..Len(batch) : batch[i] # {}
      /\ \A i, j \in 1..Len(batch) : i # j => batch[i] \cap batch[j] = {}
  BY <1>1 DEF Disjoint
<1> HIDE DEF ls
<1>3. ASSUME NEW k \in 1..Len(batch)
      PROVE  ls[k].prev = IF k = 1 THEN prev0 ELSE ls[k - 1].chunk
  <2>1. k # 1 => k - 1 \in 1..Len(batch)
    BY <1>1, SMT
  <2> QED
    BY <1>2, <2>1
<1>4. OwnBatches(ls)
  <2>1. \A i \in 1..Len(batch) : ls[i].recs # {}
    BY <1>2, <1>5
  <2>2. \A i, j \in 1..Len(batch) : i # j => ls[i].recs \cap ls[j].recs = {}
    BY <1>2, <1>5
  <2>3. \A i, j \in 1..Len(batch) : i # j => ls[i].chunk # ls[j].chunk
    <3> SUFFICES ASSUME NEW i \in 1..Len(batch), NEW j \in 1..Len(batch), i # j
                 PROVE  ls[i].chunk # ls[j].chunk
      OBVIOUS
    <3>1. ls[i].chunk = <<o, i>> /\ ls[j].chunk = <<o, j>>
      BY <1>2
    <3> QED
      BY <3>1
  <2> QED
    BY <1>1, <2>1, <2>2, <2>3 DEF OwnBatches
<1> QED
  BY <1>1, <1>3, <1>4 DEF ChainedTo, ls

\* The initial archive is empty.
LEMMA ArchiveInit == Init => ArchiveInv
<1> SUFFICES ASSUME Init PROVE ArchiveInv
  OBVIOUS
<1>1. IInv
  BY InvInit
<1>2. /\ ops = {} /\ manifest = <<>> /\ dManifest = <<>>
      /\ \A p \in Proc : pc[p] = "idle" /\ staged[p] = <<>> /\ cur[p] = {}
  BY DEF Init
<1>3. ManifestsSound
  BY <1>2, SMT DEF ManifestsSound, ChainedTo, OwnBatches
<1>4. DurablePrefix /\ AllOrNone /\ PendingLines
  BY <1>2 DEF DurablePrefix, AllOrNone, PendingLines
<1>5. Settled
  BY <1>2, SMT DEF Settled, Elems
<1>6. StagedNew
  BY <1>2 DEF StagedNew
<1> QED
  BY <1>1, <1>3, <1>4, <1>5, <1>6 DEF ArchiveInv

-----------------------------------------------------------------------------
(* What several actions share *)

\* The archive's part of the invariant, apart from the locals of a run.
Archive == ManifestsSound /\ DurablePrefix /\ AllOrNone /\ PendingLines /\ Settled

\* Places where a run's locals matter.
Staging == {"scan", "stage", "lines", "nothing", "drop", "promote"}

\* Chunks may only come.
LEMMA ArchiveFrame ==
    ASSUME Archive, UNCHANGED <<seen, ops, pSeen, pLines, manifest, dManifest>>,
           chunks \cap dChunks \subseteq chunks' \cap dChunks'
    PROVE  Archive'
<1>1. ManifestsSound' /\ DurablePrefix' /\ AllOrNone'
  BY DEF Archive, ManifestsSound, DurablePrefix, AllOrNone
<1>2. PendingLines' /\ Settled'
  BY DEF Archive, PendingLines, Settled
<1> QED
  BY <1>1, <1>2 DEF Archive

\* A run that goes on in the same place, or to one where its locals are empty.
LEMMA StagedFrame ==
    ASSUME StagedNew,
           \A q \in Proc :
              \/ pc'[q] \notin Staging /\ staged'[q] = <<>> /\ cur'[q] = {}
              \/ /\ pc'[q] = pc[q] /\ op'[q] = op[q] /\ staged'[q] = staged[q]
                 /\ cur'[q] = cur[q] /\ lines'[q] = lines[q]
                 /\ pc[q] \in Staging => UNCHANGED <<pSeen, pLines, manifest>>
    PROVE  StagedNew'
<1> SUFFICES ASSUME NEW q \in Proc
             PROVE /\ pc'[q] \in {"scan", "stage", "lines"} =>
                        /\ Disjoint(staged'[q])
                        /\ cur'[q] \cup UNION Elems(staged'[q]) \subseteq pSeen'[op'[q]]
                        /\ cur'[q] \cap UNION Elems(staged'[q]) = {}
                   /\ pc'[q] \notin {"scan", "stage", "lines"} =>
                        staged'[q] = <<>> /\ cur'[q] = {}
                   /\ pc'[q] \in {"nothing", "drop"} =>
                        pLines'[op'[q]] = <<>> /\ pSeen'[op'[q]] = {}
                   /\ pc'[q] = "promote" =>
                        /\ ChainedTo(lines'[q], LastChunk(manifest'))
                        /\ Elems(lines'[q]) \cap Elems(manifest') = {}
  BY DEF StagedNew
<1>1. CASE pc'[q] \notin Staging /\ staged'[q] = <<>> /\ cur'[q] = {}
  BY <1>1 DEF Staging
<1>2. CASE /\ pc'[q] = pc[q] /\ op'[q] = op[q] /\ staged'[q] = staged[q]
           /\ cur'[q] = cur[q] /\ lines'[q] = lines[q]
           /\ pc[q] \in Staging => UNCHANGED <<pSeen, pLines, manifest>>
  <2>1. CASE pc[q] \in Staging
    BY <1>2, <2>1 DEF StagedNew
  <2>2. CASE pc[q] \notin Staging
    BY <1>2, <2>2 DEF StagedNew, Staging
  <2> QED
    BY <2>1, <2>2
<1> QED
  BY <1>1, <1>2

\* The run at work is the only one, and works on the only operation.
LEMMA OnlyRun ==
    ASSUME IInv, NEW p \in Proc, pc[p] # "idle"
    PROVE  /\ \A q \in Proc \ {p} : pc[q] = "idle"
           /\ pc[p] \in Working => op[p] \in OpId /\ ops = {op[p]}
<1>1. \A q \in Proc \ {p} : pc[q] = "idle"
  BY DEF IInv, LockInv
<1>2. ASSUME pc[p] \in Working PROVE op[p] \in OpId /\ ops = {op[p]}
  <2>1. op[p] \in OpId
    BY <1>2, NoneAssumption DEF IInv, TypeOK
  <2>2. pc[p] = "recommit" => ops = {op[p]}
    BY DEF IInv, OpsInv, AtMostOnePending
  <2> QED
    BY <1>2, <2>1, <2>2 DEF IInv, OpsInv
<1> QED
  BY <1>1, <1>2

\* The manifest has an operation's lines, or what is durable is all there is.
LEMMA UnlistedIsDurable ==
    ASSUME DurablePrefix, TypeOK, NEW o, ops \subseteq {o},
           ~ Elems(pLines[o]) \subseteq Elems(manifest)
    PROVE  manifest = dManifest
<1> SUFFICES ASSUME o \in ops, manifest = dManifest \o pLines[o]
             PROVE  Elems(pLines[o]) \subseteq Elems(manifest)
  BY DEF DurablePrefix
<1>1. pLines[o] \in Seq(Line) /\ dManifest \in Seq(Line)
  BY DEF TypeOK
<1> QED
  BY <1>1, ElemsConcat

\* A line occurs once, so an operation whose lines are durable is not appended
\* to what is durable.
LEMMA ListedIsDurable ==
    ASSUME DurablePrefix, ManifestsSound, TypeOK, NEW o, ops \subseteq {o},
           Elems(pLines[o]) \subseteq Elems(dManifest)
    PROVE  manifest = dManifest
<1> SUFFICES ASSUME o \in ops, pLines[o] # <<>>, manifest = dManifest \o pLines[o]
             PROVE  FALSE
  BY DEF DurablePrefix
<1>1. pLines[o] \in Seq(Line) /\ dManifest \in Seq(Line)
  BY DEF TypeOK
<1>2. 1 \in DOMAIN pLines[o]
  BY <1>1, SMT
<1>3. PICK i \in DOMAIN dManifest : dManifest[i] = pLines[o][1]
  BY <1>2 DEF Elems
<1>4. /\ i \in DOMAIN manifest /\ Len(dManifest) + 1 \in DOMAIN manifest
      /\ i # Len(dManifest) + 1
      /\ manifest[i] = dManifest[i] /\ manifest[Len(dManifest) + 1] = pLines[o][1]
  BY <1>1, <1>2, SMT
<1>5. manifest[i].chunk # manifest[Len(dManifest) + 1].chunk
  BY <1>4 DEF ManifestsSound, OwnBatches
<1> QED
  BY <1>3, <1>4, <1>5

\* The sync makes the manifest and the chunks durable as they are.
LEMMA SyncStep ==
    ASSUME Archive, SyncFiles, UNCHANGED <<seen, ops, pSeen, pLines>>
    PROVE  Archive'
<1>1. manifest' = manifest /\ dManifest' = manifest /\ chunks' = chunks /\ dChunks' = chunks
  BY DEF SyncFiles
<1>2. ManifestsSound' /\ DurablePrefix' /\ AllOrNone' /\ PendingLines'
  BY <1>1 DEF Archive, ManifestsSound, DurablePrefix, AllOrNone, PendingLines
<1>3. Settled'
  BY <1>1 DEF Archive, Settled
<1> QED
  BY <1>2, <1>3 DEF Archive

\* A commit settles the lines of the operation, which are durable.
LEMMA CommitStep ==
    ASSUME Archive, TypeOK, NEW o, ops = {o}, CommitRows(o),
           Elems(pLines[o]) \subseteq Elems(dManifest),
           ChunksOf(pLines[o]) \subseteq chunks \cap dChunks,
           UNCHANGED diskVars
    PROVE  Archive'
<1>1. /\ ops' = {} /\ seen' = seen \cup pSeen[o]
      /\ UNCHANGED <<chunks, dChunks, manifest, dManifest>>
  BY DEF CommitRows, DeleteRows, diskVars
<1>2. ManifestsSound' /\ AllOrNone' /\ PendingLines'
  BY <1>1 DEF Archive, ManifestsSound, AllOrNone, PendingLines
<1>3. DurablePrefix'
  BY <1>1, ListedIsDurable DEF Archive, DurablePrefix
<1>4. Settled'
  <2> SUFFICES ASSUME NEW l \in Elems(manifest) \cup Elems(dManifest)
               PROVE  l.recs \subseteq seen' /\ l.chunk \in chunks \cap dChunks
    BY <1>1 DEF Settled
  <2>1. CASE l \in Elems(pLines[o])
    <3>1. l.recs \subseteq RecsOf(pLines[o]) /\ l.chunk \in ChunksOf(pLines[o])
      BY <2>1 DEF RecsOf, ChunksOf
    <3> QED
      BY <1>1, <3>1 DEF Archive, PendingLines
  <2>2. CASE l \notin Elems(pLines[o])
    BY <1>1, <2>2 DEF Archive, Settled
  <2> QED
    BY <2>1, <2>2
<1> QED
  BY <1>2, <1>3, <1>4 DEF Archive

\* Dropping an operation that is in no manifest changes no line's standing.
LEMMA DropStep ==
    ASSUME Archive, TypeOK, NEW o, ops = {o}, DeleteRows(o),
           pLines[o] = <<>> \/ ~ Elems(pLines[o]) \subseteq Elems(manifest),
           UNCHANGED <<seen, chunks, dChunks, manifest, dManifest>>
    PROVE  Archive'
<1>1. ops' = {}
  BY DEF DeleteRows
<1>2. manifest = dManifest
  BY UnlistedIsDurable DEF Archive, DurablePrefix
<1>3. Elems(pLines[o]) \cap Elems(manifest) = {}
  <2>1. pLines[o] = <<>> => Elems(pLines[o]) = {}
    BY SMT DEF Elems
  <2> QED
    BY <2>1 DEF Archive, AllOrNone
<1>4. ManifestsSound' /\ AllOrNone' /\ PendingLines' /\ DurablePrefix'
  BY <1>1, <1>2 DEF Archive, ManifestsSound, AllOrNone, PendingLines, DurablePrefix
<1>5. Settled'
  BY <1>2, <1>3 DEF Archive, Settled
<1> QED
  BY <1>4, <1>5 DEF Archive

\* The bare types of the locals, for updates of one process.
LEMMA LocalTypes ==
    ASSUME TypeOK
    PROVE  /\ DOMAIN pc = Proc /\ DOMAIN op = Proc /\ DOMAIN staged = Proc
           /\ DOMAIN cur = Proc /\ DOMAIN lines = Proc
           /\ DOMAIN pSeen = OpId /\ DOMAIN pLines = OpId
BY DEF TypeOK

\* Steps that change nothing of the archive, of the pending rows and of the
\* locals StagedNew is about, except that a process may leave.
LEMMA QuietStep ==
    ASSUME IInv, Archive, StagedNew,
           UNCHANGED <<seen, ops, pSeen, pLines, manifest, dManifest>>,
           chunks \cap dChunks \subseteq chunks' \cap dChunks',
           NEW p \in Proc,
           \/ Exit(p)
           \/ UNCHANGED <<pc, op, staged, cur, lines>>
           \/ /\ pc' = [pc EXCEPT ![p] = "recover"] /\ pc[p] = "idle"
              /\ UNCHANGED <<op, staged, cur, lines>>
    PROVE  Archive' /\ StagedNew'
<1>1. Archive'
  BY ArchiveFrame
<1>2. TypeOK
  BY DEF IInv
<1>3. CASE Exit(p)
  <2>1. /\ pc'[p] \notin Staging /\ staged'[p] = <<>> /\ cur'[p] = {}
        /\ \A q \in Proc \ {p} :
             /\ pc'[q] = pc[q] /\ op'[q] = op[q] /\ staged'[q] = staged[q]
             /\ cur'[q] = cur[q] /\ lines'[q] = lines[q]
    BY <1>2, <1>3, LocalTypes DEF Exit, Goto, Staging
  <2> QED
    BY <1>1, <2>1, StagedFrame
<1>4. CASE UNCHANGED <<pc, op, staged, cur, lines>>
  BY <1>1, <1>4, StagedFrame
<1>5. CASE /\ pc' = [pc EXCEPT ![p] = "recover"] /\ pc[p] = "idle"
           /\ UNCHANGED <<op, staged, cur, lines>>
  <2>1. /\ pc'[p] \notin Staging /\ staged'[p] = <<>> /\ cur'[p] = {}
        /\ \A q \in Proc \ {p} : pc'[q] = pc[q]
    BY <1>2, <1>5, LocalTypes DEF StagedNew, Staging
  <2> QED
    BY <1>1, <1>5, <2>1, StagedFrame
<1> QED
  BY <1>3, <1>4, <1>5

\* Steps of recovery and of the end of a run: the run at work goes on to a place
\* where it has nothing staged.
LEMMA StagedEmpty ==
    ASSUME IInv, StagedNew, NEW p \in Proc, pc[p] # "idle",
           pc[p] \notin {"scan", "stage", "lines"},
           pc' = pc \/ (\E l : l \notin Staging /\ pc' = [pc EXCEPT ![p] = l]),
           pc[p] \in Staging => pc' # pc,
           UNCHANGED <<staged, cur>>
    PROVE  StagedNew'
<1>1. \A q \in Proc \ {p} : pc[q] = "idle"
  BY OnlyRun
<1>2. TypeOK
  BY DEF IInv
<1>3. \A q \in Proc : pc'[q] \notin Staging
  BY <1>1, <1>2, LocalTypes DEF Staging
<1>4. \A q \in Proc : staged'[q] = <<>> /\ cur'[q] = {}
  BY <1>1 DEF StagedNew
<1> QED
  BY <1>3, <1>4 DEF StagedNew, Staging

-----------------------------------------------------------------------------
(* Recovery *)

\* Removing the chunk of an unlisted line takes none from a settled one.
LEMMA DiscardChunkStep ==
    ASSUME ArchiveInv, NEW p \in Proc, NEW o \in OpId, RecoverDiscardChunk(p, o)
    PROVE  Archive' /\ StagedNew'
<1>1. /\ pc[p] = "recover" /\ o \in queue[p] /\ ~ Resumable(o)
      /\ UNCHANGED <<seen, ops, pSeen, pLines, manifest, dManifest, dChunks>>
      /\ UNCHANGED <<pc, op, staged, cur, lines>>
  BY DEF RecoverDiscardChunk, sqlVars, localVars
<1>2. PICK m \in Elems(pLines[o]) \ Elems(manifest) : chunks' = chunks \ {m.chunk}
  BY DEF RecoverDiscardChunk, Abandoned
<1>3. IInv /\ Archive /\ StagedNew /\ o \in ops
  BY <1>1 DEF ArchiveInv, Archive, IInv, OpsInv
<1>4. PICK j \in DOMAIN pLines[o] : m = pLines[o][j]
  BY <1>2 DEF Elems
<1>5. m.chunk = <<o, j>>
  BY <1>3, <1>4 DEF IInv, LineNames
<1>6. ASSUME NEW l \in Elems(manifest) \cup Elems(dManifest), l.chunk = m.chunk
      PROVE  \E w \in ops : l \in Elems(pLines[w])
  <2>1. l.chunk[1] = o
    BY <1>5, <1>6, SMT
  <2> QED
    BY <1>3, <2>1 DEF IInv, LineOwner
<1>7. Settled'
  BY <1>1, <1>2, <1>3, <1>6 DEF Archive, Settled
<1>8. ManifestsSound' /\ DurablePrefix' /\ AllOrNone' /\ PendingLines'
  BY <1>1, <1>3 DEF Archive, ManifestsSound, DurablePrefix, AllOrNone, PendingLines
<1>9. StagedNew'
  BY <1>1, <1>3, StagedFrame
<1> QED
  BY <1>7, <1>8, <1>9 DEF Archive

\* The other steps of recovery.
LEMMA RecoverStep ==
    ASSUME ArchiveInv, NEW p \in Proc, NEW o \in OpId,
           RecoverDiscardRows(p, o) \/ RecoverSync(p, o) \/ RecoverCommit(p)
    PROVE  Archive' /\ StagedNew'
<1>1. IInv /\ Archive /\ StagedNew /\ TypeOK
  BY DEF ArchiveInv, Archive, IInv
<1>2. CASE RecoverDiscardRows(p, o)
  <2>1. /\ pc[p] = "recover" /\ o \in queue[p] /\ ~ Resumable(o) /\ DeleteRows(o)
        /\ UNCHANGED <<seen, chunks, dChunks, manifest, dManifest, pc, staged, cur>>
    BY <1>2 DEF RecoverDiscardRows, diskVars
  <2>2. ops = {o}
    BY <1>1, <2>1 DEF IInv, OpsInv, AtMostOnePending
  <2>3. pLines[o] = <<>> \/ ~ Elems(pLines[o]) \subseteq Elems(manifest)
    BY <2>1 DEF Resumable
  <2>4. Archive'
    BY <1>1, <2>1, <2>2, <2>3, DropStep
  <2>5. StagedNew'
    BY <1>1, <2>1, StagedEmpty DEF Staging
  <2> QED
    BY <2>4, <2>5
<1>3. CASE RecoverSync(p, o)
  <2>1. /\ pc[p] = "recover" /\ SyncFiles /\ pc' = [pc EXCEPT ![p] = "recommit"]
        /\ UNCHANGED <<seen, ops, pSeen, pLines, staged, cur>>
    BY <1>3 DEF RecoverSync, Goto, sqlVars
  <2>2. Archive'
    BY <1>1, <2>1, SyncStep
  <2>3. StagedNew'
    BY <1>1, <2>1, StagedEmpty DEF Staging
  <2> QED
    BY <2>2, <2>3
<1>4. CASE RecoverCommit(p)
  <2>1. /\ pc[p] = "recommit" /\ CommitRows(op[p]) /\ pc' = [pc EXCEPT ![p] = "recover"]
        /\ UNCHANGED <<diskVars, staged, cur>>
    BY <1>4 DEF RecoverCommit, Goto
  <2>2. ops = {op[p]}
    BY <1>1, <2>1, OnlyRun DEF Working
  <2>3. /\ Elems(pLines[op[p]]) \subseteq Elems(dManifest)
        /\ ChunksOf(pLines[op[p]]) \subseteq chunks \cap dChunks
    BY <1>1, <2>1 DEF IInv, PublishInv
  <2>4. Archive'
    BY <1>1, <2>1, <2>2, <2>3, CommitStep
  <2>5. StagedNew'
    BY <1>1, <2>1, StagedEmpty DEF Staging
  <2> QED
    BY <2>4, <2>5
<1> QED
  BY <1>2, <1>3, <1>4

\* A new operation has no rows, and the archive is settled when it begins.
LEMMA BeginStep ==
    ASSUME ArchiveInv, NEW p \in Proc, NEW o \in OpId, BeginBackup(p, o)
    PROVE  Archive' /\ StagedNew'
<1>1. IInv /\ Archive /\ StagedNew /\ TypeOK
  BY DEF ArchiveInv, Archive, IInv
<1>2. /\ pc[p] = "recover" /\ queue[p] = {} /\ ops' = ops \cup {o}
      /\ pSeen' = [pSeen EXCEPT ![o] = {}] /\ pLines' = [pLines EXCEPT ![o] = <<>>]
      /\ op' = [op EXCEPT ![p] = o] /\ pc' = [pc EXCEPT ![p] = "scan"]
      /\ UNCHANGED <<seen, chunks, dChunks, manifest, dManifest, staged, cur>>
  BY DEF BeginBackup, Goto, diskVars
<1>3. ops = {}
  BY <1>1, <1>2 DEF IInv, OpsInv
<1>4. ops' = {o} /\ pSeen'[o] = {} /\ pLines'[o] = <<>>
  BY <1>1, <1>2, <1>3, LocalTypes
<1>5. Elems(<<>>) = {}
  BY SMT DEF Elems
<1>6. OwnBatches(<<>>) /\ RecsOf(<<>>) = {}
  BY <1>5, SMT DEF OwnBatches, RecsOf
<1>7. ManifestsSound' /\ DurablePrefix' /\ AllOrNone' /\ PendingLines' /\ Settled'
  <2>1. ManifestsSound'
    BY <1>1, <1>2 DEF Archive, ManifestsSound
  <2>2. DurablePrefix'
    BY <1>1, <1>2, <1>3 DEF Archive, DurablePrefix
  <2>3. AllOrNone'
    BY <1>4, <1>5 DEF AllOrNone
  <2>4. PendingLines'
    BY <1>4, <1>6 DEF PendingLines
  <2>5. Settled'
    BY <1>1, <1>2, <1>3 DEF Archive, Settled
  <2> QED
    BY <2>1, <2>2, <2>3, <2>4, <2>5
<1>8. StagedNew'
  <2>1. \A q \in Proc \ {p} : pc'[q] = "idle" /\ staged'[q] = <<>> /\ cur'[q] = {}
    BY <1>1, <1>2, OnlyRun, LocalTypes DEF StagedNew
  <2>2. /\ pc'[p] = "scan" /\ op'[p] = o /\ staged'[p] = <<>> /\ cur'[p] = {}
    BY <1>1, <1>2, LocalTypes DEF StagedNew
  <2>3. Disjoint(<<>>)
    BY SMT DEF Disjoint
  <2> QED
    BY <1>4, <1>5, <2>1, <2>2, <2>3 DEF StagedNew
<1> QED
  BY <1>7, <1>8 DEF Archive

-----------------------------------------------------------------------------
(* The scan *)

\* Another batch that shares nothing with those before.
LEMMA DisjointAppend ==
    ASSUME NEW S, NEW b \in Seq(SUBSET S), NEW x \in SUBSET S, Disjoint(b), x # {},
           x \cap UNION Elems(b) = {}
    PROVE  Disjoint(Append(b, x))
<1> DEFINE m == Append(b, x)
<1>1. /\ DOMAIN m = 1..(Len(b) + 1) /\ DOMAIN b = 1..Len(b) /\ Len(b) \in Nat
      /\ \A i \in 1..Len(b) : m[i] = b[i]
      /\ m[Len(b) + 1] = x
  BY SMT
<1>2. /\ \A i \in 1..Len(b) : b[i] # {} /\ x \cap b[i] = {}
      /\ \A i, j \in 1..Len(b) : i # j => b[i] \cap b[j] = {}
  BY <1>1 DEF Disjoint, Elems
<1> HIDE DEF m
<1>3. \A i \in DOMAIN m : i \in 1..Len(b) \/ i = Len(b) + 1
  BY <1>1, SMT
<1>4. \A i \in DOMAIN m : m[i] # {}
  BY <1>1, <1>2, <1>3
<1>5. ASSUME NEW i \in DOMAIN m, NEW j \in DOMAIN m, i # j PROVE m[i] \cap m[j] = {}
  <2>1. CASE i \in 1..Len(b) /\ j \in 1..Len(b)
    BY <1>1, <1>2, <1>5, <2>1
  <2>2. CASE i = Len(b) + 1 /\ j \in 1..Len(b)
    BY <1>1, <1>2, <2>2
  <2>3. CASE j = Len(b) + 1 /\ i \in 1..Len(b)
    <3>1. m[i] = b[i] /\ m[j] = x /\ x \cap b[i] = {}
      BY <1>1, <1>2, <2>3
    <3> QED
      BY <3>1
  <2> QED
    BY <1>3, <1>5, <2>1, <2>2, <2>3
<1> QED
  BY <1>4, <1>5 DEF Disjoint, m

\* A record that is neither seen nor pending becomes pending, in a batch.
LEMMA StageRecordStep ==
    ASSUME ArchiveInv, NEW p \in Proc, StageRecord(p)
    PROVE  Archive' /\ StagedNew'
<1>1. IInv /\ Archive /\ StagedNew /\ TypeOK
  BY DEF ArchiveInv, Archive, IInv
<1> DEFINE r == NextRecord(p)
<1>2. /\ pc[p] = "scan" /\ r \notin seen /\ r \notin pSeen[op[p]] /\ Push(p, r)
      /\ pSeen' = [pSeen EXCEPT ![op[p]] = @ \cup {r}]
      /\ UNCHANGED <<seen, ops, pLines, chunks, dChunks, manifest, dManifest, pc, op, lines>>
  BY DEF StageRecord, HasLine, IsKnown, diskVars
<1> HIDE DEF r
<1>3. op[p] \in OpId /\ ops = {op[p]} /\ \A q \in Proc \ {p} : pc[q] = "idle"
  BY <1>1, <1>2, OnlyRun DEF Working
<1>4. pLines[op[p]] = <<>>
  BY <1>1, <1>2 DEF IInv, StagedInChunks
<1>5. pSeen'[op[p]] = pSeen[op[p]] \cup {r}
  BY <1>1, <1>2, <1>3, LocalTypes
<1>6. Archive'
  <2>1. PendingLines'
    BY <1>1, <1>2, <1>3, <1>5 DEF Archive, PendingLines
  <2>2. ManifestsSound' /\ DurablePrefix' /\ AllOrNone' /\ Settled'
    BY <1>1, <1>2 DEF Archive, ManifestsSound, DurablePrefix, AllOrNone, Settled
  <2> QED
    BY <2>1, <2>2 DEF Archive
<1>7. /\ Disjoint(staged[p]) /\ cur[p] \cup UNION Elems(staged[p]) \subseteq pSeen[op[p]]
      /\ cur[p] \cap UNION Elems(staged[p]) = {}
      /\ staged[p] \in Seq(SUBSET Record) /\ cur[p] \in SUBSET Record
  BY <1>1, <1>2 DEF StagedNew, TypeOK
<1>8. /\ Disjoint(staged'[p]) /\ cur'[p] \cup UNION Elems(staged'[p]) \subseteq pSeen'[op[p]]
      /\ cur'[p] \cap UNION Elems(staged'[p]) = {}
  <2>1. CASE cur' = [cur EXCEPT ![p] = @ \cup {r}] /\ UNCHANGED staged
    <3>1. cur'[p] = cur[p] \cup {r} /\ staged'[p] = staged[p]
      BY <1>1, <2>1, LocalTypes
    <3> QED
      BY <1>2, <1>5, <1>7, <3>1
  <2>2. CASE /\ cur[p] # {} /\ staged' = [staged EXCEPT ![p] = Append(@, cur[p])]
             /\ cur' = [cur EXCEPT ![p] = {r}]
    <3>1. cur'[p] = {r} /\ staged'[p] = Append(staged[p], cur[p])
      BY <1>1, <2>2, LocalTypes
    <3>2. Elems(staged'[p]) = Elems(staged[p]) \cup {cur[p]}
      BY <1>7, <3>1, ElemsAppend
    <3>3. Disjoint(staged'[p])
      BY <1>7, <2>2, <3>1, DisjointAppend
    <3> QED
      BY <1>2, <1>5, <1>7, <3>1, <3>2, <3>3
  <2> QED
    BY <1>2, <2>1, <2>2 DEF Push
<1>9. \A q \in Proc \ {p} : staged'[q] = <<>> /\ cur'[q] = {}
  <2>1. \A q \in Proc \ {p} : staged'[q] = staged[q] /\ cur'[q] = cur[q]
    BY <1>1, <1>2, LocalTypes DEF Push
  <2> QED
    BY <1>1, <1>3, <2>1 DEF StagedNew
<1>10. StagedNew'
  BY <1>2, <1>3, <1>8, <1>9 DEF StagedNew
<1> QED
  BY <1>6, <1>10

\* The last batch is closed; a run that has none has no record pending.
LEMMA FinishScanStep ==
    ASSUME ArchiveInv, NEW p \in Proc, FinishScan(p)
    PROVE  Archive' /\ StagedNew'
<1>1. IInv /\ Archive /\ StagedNew /\ TypeOK
  BY DEF ArchiveInv, Archive, IInv
<1>2. /\ pc[p] = "scan"
      /\ staged' = [staged EXCEPT ![p] = IF cur[p] = {} THEN @ ELSE Append(@, cur[p])]
      /\ cur' = [cur EXCEPT ![p] = {}]
      /\ pc' = [pc EXCEPT ![p] = IF staged'[p] = <<>> THEN "nothing" ELSE "stage"]
      /\ UNCHANGED <<seen, ops, pSeen, pLines, chunks, dChunks, manifest, dManifest, op, lines>>
  BY DEF FinishScan, Goto, sqlVars, diskVars
<1>3. op[p] \in OpId /\ \A q \in Proc \ {p} : pc[q] = "idle"
  BY <1>1, <1>2, OnlyRun DEF Working
<1>4. Archive'
  BY <1>1, <1>2, ArchiveFrame
<1>5. /\ Disjoint(staged[p]) /\ cur[p] \cup UNION Elems(staged[p]) \subseteq pSeen[op[p]]
      /\ cur[p] \cap UNION Elems(staged[p]) = {}
      /\ staged[p] \in Seq(SUBSET Record) /\ cur[p] \in SUBSET Record
  BY <1>1, <1>2 DEF StagedNew, TypeOK
<1>6. pLines[op[p]] = <<>> /\ pSeen[op[p]] \subseteq cur[p] \cup UNION Elems(staged[p])
  BY <1>1, <1>2 DEF IInv, StagedInChunks
<1>7. cur'[p] = {} /\ staged'[p] = IF cur[p] = {} THEN staged[p] ELSE Append(staged[p], cur[p])
  BY <1>1, <1>2, LocalTypes
<1>8. Disjoint(staged'[p]) /\ UNION Elems(staged'[p]) = cur[p] \cup UNION Elems(staged[p])
  <2>1. CASE cur[p] = {}
    BY <1>5, <1>7, <2>1
  <2>2. CASE cur[p] # {}
    <3>1. staged'[p] = Append(staged[p], cur[p])
      BY <1>7, <2>2
    <3>2. Elems(staged'[p]) = Elems(staged[p]) \cup {cur[p]}
      BY <1>5, <3>1, ElemsAppend
    <3>3. Disjoint(staged'[p])
      BY <1>5, <2>2, <3>1, DisjointAppend
    <3> QED
      BY <3>2, <3>3
  <2> QED
    BY <2>1, <2>2
<1>9. pc'[p] \in {"nothing", "stage"} /\ (pc'[p] = "nothing" => staged'[p] = <<>>)
  BY <1>1, <1>2, LocalTypes
<1>10. pc'[p] = "nothing" => pSeen[op[p]] = {}
  <2> HAVE pc'[p] = "nothing"
  <2>1. Elems(staged'[p]) = {}
    BY <1>9, SMT DEF Elems
  <2> QED
    BY <1>6, <1>8, <2>1
<1>11. \A q \in Proc \ {p} : pc'[q] = "idle" /\ staged'[q] = <<>> /\ cur'[q] = {}
  <2>1. \A q \in Proc \ {p} : pc'[q] = pc[q] /\ staged'[q] = staged[q] /\ cur'[q] = cur[q]
    BY <1>1, <1>2, LocalTypes
  <2> QED
    BY <1>1, <1>3, <2>1 DEF StagedNew
<1>12. StagedNew'
  BY <1>2, <1>5, <1>6, <1>7, <1>8, <1>9, <1>10, <1>11 DEF StagedNew
<1> QED
  BY <1>4, <1>12

\* The checkpoints are staged beside the batches.
LEMMA StageCheckpointsStep ==
    ASSUME ArchiveInv, NEW p \in Proc, StageCheckpoints(p) \/ CommitCheckpoints(p)
    PROVE  Archive' /\ StagedNew'
<1>1. IInv /\ Archive /\ StagedNew /\ TypeOK
  BY DEF ArchiveInv, Archive, IInv
<1>2. /\ \/ pc[p] = "stage" /\ pc' = [pc EXCEPT ![p] = "lines"]
         \/ pc[p] = "nothing" /\ pc' = [pc EXCEPT ![p] = "drop"]
      /\ UNCHANGED <<seen, ops, pSeen, pLines, chunks, dChunks, manifest, dManifest,
                     op, staged, cur, lines>>
  BY DEF StageCheckpoints, CommitCheckpoints, Goto, diskVars
<1>3. Archive'
  BY <1>1, <1>2, ArchiveFrame
<1>4. /\ \/ pc[p] = "stage" /\ pc'[p] = "lines"
         \/ pc[p] = "nothing" /\ pc'[p] = "drop"
      /\ \A q \in Proc \ {p} : pc'[q] = pc[q]
  BY <1>1, <1>2, LocalTypes
<1>5. StagedNew'
  BY <1>1, <1>2, <1>4 DEF StagedNew
<1> QED
  BY <1>3, <1>5

-----------------------------------------------------------------------------
(* Publication *)

\* The operation with nothing to publish is dropped, and the sync and the commit
\* of one that has published leave the archive sound.
LEMMA FinishRunStep ==
    ASSUME ArchiveInv, NEW p \in Proc,
           DropOperation(p) \/ SyncMetadata(p) \/ CommitPending(p)
    PROVE  Archive' /\ StagedNew'
<1>1. IInv /\ Archive /\ StagedNew /\ TypeOK
  BY DEF ArchiveInv, Archive, IInv
<1>2. CASE DropOperation(p)
  <2>1. /\ pc[p] = "drop" /\ DeleteRows(op[p]) /\ pc' = [pc EXCEPT ![p] = "done"]
        /\ UNCHANGED <<seen, chunks, dChunks, manifest, dManifest, staged, cur>>
    BY <1>2 DEF DropOperation, Goto, diskVars
  <2>2. ops = {op[p]} /\ pLines[op[p]] = <<>>
    BY <1>1, <2>1, OnlyRun DEF Working, StagedNew
  <2>3. Archive'
    BY <1>1, <2>1, <2>2, DropStep
  <2>4. pc' # pc
    BY <1>1, <2>1, LocalTypes
  <2>5. StagedNew'
    BY <1>1, <2>1, <2>4, StagedEmpty DEF Staging
  <2> QED
    BY <2>3, <2>5
<1>3. CASE SyncMetadata(p)
  <2>1. /\ pc[p] = "sync" /\ SyncFiles /\ pc' = [pc EXCEPT ![p] = "commit"]
        /\ UNCHANGED <<seen, ops, pSeen, pLines, staged, cur>>
    BY <1>3 DEF SyncMetadata, Goto, sqlVars
  <2>2. Archive'
    BY <1>1, <2>1, SyncStep
  <2>3. StagedNew'
    BY <1>1, <2>1, StagedEmpty DEF Staging
  <2> QED
    BY <2>2, <2>3
<1>4. CASE CommitPending(p)
  <2>1. /\ pc[p] = "commit" /\ CommitRows(op[p]) /\ pc' = [pc EXCEPT ![p] = "done"]
        /\ UNCHANGED <<diskVars, staged, cur>>
    BY <1>4 DEF CommitPending, Goto
  <2>2. ops = {op[p]}
    BY <1>1, <2>1, OnlyRun DEF Working
  <2>3. /\ Elems(pLines[op[p]]) \subseteq Elems(dManifest)
        /\ ChunksOf(pLines[op[p]]) \subseteq chunks \cap dChunks
    BY <1>1, <2>1 DEF IInv, PublishInv
  <2>4. Archive'
    BY <1>1, <2>1, <2>2, <2>3, CommitStep
  <2>5. StagedNew'
    BY <1>1, <2>1, StagedEmpty DEF Staging
  <2> QED
    BY <2>4, <2>5
<1> QED
  BY <1>2, <1>3, <1>4

\* The lines of a run are chained to the manifest as it is, and while they are
\* none of its lines has the operation's id.
LEMMA StageLinesStep ==
    ASSUME ArchiveInv, NEW p \in Proc, StageLines(p)
    PROVE  Archive' /\ StagedNew'
<1>1. IInv /\ Archive /\ StagedNew /\ TypeOK
  BY DEF ArchiveInv, Archive, IInv
<1> DEFINE o == op[p]
           ls == ManifestLines(o, staged[p], LastChunk(manifest))
<1>2. /\ pc[p] = "lines" /\ lines' = [lines EXCEPT ![p] = ls]
      /\ pLines' = [pLines EXCEPT ![o] = lines'[p]]
      /\ staged' = [staged EXCEPT ![p] = <<>>] /\ pc' = [pc EXCEPT ![p] = "promote"]
      /\ UNCHANGED <<seen, ops, pSeen, chunks, dChunks, manifest, dManifest, op, cur>>
  BY DEF StageLines, Goto, diskVars
<1>3. o \in OpId /\ ops = {o} /\ \A q \in Proc \ {p} : pc[q] = "idle"
  BY <1>1, <1>2, OnlyRun DEF Working
<1>4. pLines[o] = <<>>
  BY <1>1, <1>2 DEF IInv, StagedInChunks
<1>5. /\ Disjoint(staged[p]) /\ cur[p] \cup UNION Elems(staged[p]) \subseteq pSeen[o]
      /\ staged[p] \in Seq(SUBSET Record)
  BY <1>1, <1>2 DEF StagedNew, TypeOK
<1>6. /\ ChainedTo(ls, LastChunk(manifest)) /\ OwnBatches(ls)
      /\ \A k \in DOMAIN ls : ls[k].chunk = <<o, k>>
      /\ RecsOf(ls) \subseteq pSeen[o]
  <2>1. ChainedTo(ls, LastChunk(manifest)) /\ OwnBatches(ls)
    BY <1>3, <1>5, ManifestLinesOwn
  <2>2. /\ \A k \in DOMAIN ls : ls[k].chunk = <<o, k>>
        /\ RecsOf(ls) = UNION Elems(staged[p])
    BY <1>5, ManifestLinesShape
  <2> HIDE DEF ls
  <2> QED
    BY <1>5, <2>1, <2>2
<1>7. \A l \in Elems(manifest) \cup Elems(dManifest) : l.chunk[1] # o
  <2>1. Elems(pLines[o]) = {}
    BY <1>4, SMT DEF Elems
  <2> QED
    BY <1>1, <1>3, <2>1 DEF IInv, LineOwner
<1> HIDE DEF ls
<1>8. /\ pLines'[o] = ls /\ lines'[p] = ls /\ pc'[p] = "promote" /\ staged'[p] = <<>>
      /\ \A q \in Proc \ {p} : pc'[q] = pc[q] /\ staged'[q] = staged[q]
  BY <1>1, <1>2, <1>3, LocalTypes
<1>9. \A l \in Elems(ls) : l \notin Elems(manifest) /\ l \notin Elems(dManifest)
  <2>1. \A l \in Elems(ls) : l.chunk[1] = o
    <3> SUFFICES ASSUME NEW k \in DOMAIN ls PROVE ls[k].chunk[1] = o
      BY DEF Elems
    <3>1. ls[k].chunk = <<o, k>>
      BY <1>6
    <3> QED
      BY <3>1
  <2> QED
    BY <1>7, <2>1
<1>10. manifest = dManifest
  BY <1>1, <1>3, <1>4 DEF Archive, DurablePrefix
<1>11. ManifestsSound' /\ DurablePrefix'
  BY <1>1, <1>2, <1>10 DEF Archive, ManifestsSound, DurablePrefix
<1>12. AllOrNone'
  BY <1>2, <1>3, <1>8, <1>9 DEF AllOrNone
<1>13. PendingLines'
  BY <1>1, <1>2, <1>3, <1>6, <1>8 DEF Archive, PendingLines
<1>14. Settled'
  <2>1. Elems(pLines[o]) = {}
    BY <1>4, SMT DEF Elems
  <2> QED
    BY <1>1, <1>2, <1>3, <2>1 DEF Archive, Settled
<1>15. StagedNew'
  <2>1. cur'[p] = {}
    <3>1. cur[p] = {}
      BY <1>1, <1>2 DEF IInv, StagedInChunks, StagedNew
    <3> QED
      BY <1>2, <3>1
  <2>2. \A q \in Proc \ {p} : pc'[q] = "idle" /\ staged'[q] = <<>> /\ cur'[q] = {}
    BY <1>1, <1>2, <1>3, <1>8 DEF StagedNew
  <2> QED
    BY <1>2, <1>6, <1>8, <1>9, <2>1, <2>2 DEF StagedNew
<1> QED
  BY <1>11, <1>12, <1>13, <1>14, <1>15 DEF Archive

\* The lines of a run go on the chain, with records and chunks of their own.
LEMMA ReplaceStep ==
    ASSUME ArchiveInv, NEW p \in Proc, ReplaceManifest(p)
    PROVE  Archive' /\ StagedNew'
<1>1. IInv /\ Archive /\ StagedNew /\ TypeOK
  BY DEF ArchiveInv, Archive, IInv
<1> DEFINE o == op[p]
<1>2. /\ pc[p] = "promote" /\ manifest' = manifest \o lines[p]
      /\ pc' = [pc EXCEPT ![p] = "sync"]
      /\ UNCHANGED <<seen, ops, pSeen, pLines, chunks, dChunks, dManifest, op, staged, cur>>
  BY DEF ReplaceManifest, AppendedManifest, Goto, sqlVars
<1>3. o \in OpId /\ ops = {o} /\ lines[p] # <<>> /\ lines[p] = pLines[o]
  BY <1>1, <1>2, OnlyRun DEF Working, IInv, PublishInv
<1>4. /\ ChainedTo(lines[p], LastChunk(manifest))
      /\ Elems(lines[p]) \cap Elems(manifest) = {}
  BY <1>1, <1>2 DEF StagedNew
<1>5. lines[p] \in Seq(Line) /\ manifest \in Seq(Line) /\ dManifest \in Seq(Line)
  BY <1>1 DEF TypeOK
<1>6. Elems(manifest') = Elems(manifest) \cup Elems(lines[p])
  BY <1>2, <1>5, ElemsConcat
<1>7. manifest = dManifest
  <2>1. Elems(lines[p]) # {}
    <3>1. 1 \in DOMAIN lines[p]
      BY <1>3, <1>5, SMT
    <3> QED
      BY <3>1 DEF Elems
  <2>2. ~ Elems(pLines[o]) \subseteq Elems(manifest)
    BY <1>3, <1>4, <2>1
  <2> QED
    BY <1>1, <1>3, <2>2, UnlistedIsDurable DEF Archive
<1>8. ASSUME NEW x \in Elems(manifest), NEW y \in Elems(lines[p])
      PROVE  x.recs \cap y.recs = {} /\ x.chunk # y.chunk
  <2>1. x \notin Elems(pLines[o])
    BY <1>3, <1>4
  <2>2. x.recs \subseteq seen
    BY <1>1, <1>3, <2>1 DEF Archive, Settled
  <2>3. y.recs \subseteq pSeen[o] /\ pSeen[o] \cap seen = {}
    <3>1. y.recs \subseteq RecsOf(pLines[o])
      BY <1>3 DEF RecsOf
    <3> QED
      BY <1>1, <1>3, <3>1 DEF Archive, PendingLines
  <2>4. y.chunk[1] = o
    <3>1. PICK k \in DOMAIN pLines[o] : y = pLines[o][k]
      BY <1>3 DEF Elems
    <3>2. y.chunk = <<o, k>>
      BY <1>1, <1>3, <3>1 DEF IInv, LineNames
    <3> QED
      BY <3>2
  <2>5. x.chunk[1] # o
    BY <1>1, <1>3, <2>1 DEF IInv, LineOwner
  <2> QED
    BY <2>2, <2>3, <2>4, <2>5
<1>9. ChainedTo(manifest', Genesis) /\ OwnBatches(manifest')
  <2>1. /\ ChainedTo(manifest, Genesis) /\ OwnBatches(manifest) /\ OwnBatches(lines[p])
    BY <1>1, <1>3 DEF Archive, ManifestsSound, PendingLines
  <2>2. ChainedTo(manifest', Genesis)
    BY <1>2, <1>4, <1>5, <2>1, ChainedConcat
  <2>3. OwnBatches(manifest')
    BY <1>2, <1>5, <1>8, <2>1, OwnConcat
  <2> QED
    BY <2>2, <2>3
<1>10. ManifestsSound' /\ PendingLines'
  BY <1>1, <1>2, <1>9 DEF Archive, ManifestsSound, PendingLines
<1>11. DurablePrefix'
  BY <1>2, <1>3, <1>7 DEF DurablePrefix
<1>12. AllOrNone'
  BY <1>1, <1>2, <1>3, <1>6 DEF Archive, AllOrNone
<1>13. Settled'
  BY <1>1, <1>2, <1>3, <1>6 DEF Archive, Settled
<1>14. StagedNew'
  <2>1. pc' # pc
    BY <1>1, <1>2, LocalTypes
  <2> QED
    BY <1>1, <1>2, <2>1, StagedEmpty DEF Staging
<1> QED
  BY <1>10, <1>11, <1>12, <1>13, <1>14 DEF Archive

\* A power loss leaves the old manifest or the new one, and both are sound.
LEMMA PowerLossStep ==
    ASSUME ArchiveInv, PowerLoss
    PROVE  Archive' /\ StagedNew'
<1>1. Archive
  BY DEF ArchiveInv, Archive
<1>2. /\ \A q \in Proc : pc'[q] = "idle" /\ staged'[q] = <<>> /\ cur'[q] = {}
      /\ manifest' \in {manifest, dManifest} /\ dManifest' = manifest'
      /\ chunks \cap dChunks \subseteq chunks' /\ dChunks' = chunks'
      /\ UNCHANGED <<seen, ops, pSeen, pLines>>
  BY DEF PowerLoss, sqlVars
<1>3. ManifestsSound' /\ DurablePrefix' /\ AllOrNone' /\ PendingLines'
  BY <1>1, <1>2 DEF Archive, ManifestsSound, DurablePrefix, AllOrNone, PendingLines
<1>4. Settled'
  BY <1>1, <1>2 DEF Archive, Settled
<1>5. StagedNew'
  BY <1>2 DEF StagedNew
<1> QED
  BY <1>3, <1>4, <1>5 DEF Archive

-----------------------------------------------------------------------------
(* The invariant *)

\* Every step keeps the archive's invariant.
LEMMA ArchiveInvStep == ArchiveInv /\ [Next]_vars => ArchiveInv'
<1> SUFFICES ASSUME ArchiveInv, [Next]_vars PROVE Archive' /\ StagedNew'
  BY InvStep DEF ArchiveInv, Archive
<1>1. IInv /\ Archive /\ StagedNew
  BY DEF ArchiveInv, Archive
<1>2. ASSUME NEW p \in Proc, LockArchive(p) PROVE Archive' /\ StagedNew'
  BY <1>1, <1>2, QuietStep DEF LockArchive, Goto, sqlVars, diskVars
<1>3. ASSUME NEW p \in Proc, NEW o \in OpId,
             RecoverDiscardChunk(p, o) \/ RecoverDiscardRows(p, o) \/ RecoverSync(p, o)
               \/ RecoverMissingChunk(p, o) \/ BeginBackup(p, o)
      PROVE  Archive' /\ StagedNew'
  <2>1. CASE RecoverMissingChunk(p, o)
    BY <1>1, <2>1, QuietStep DEF RecoverMissingChunk, sqlVars, diskVars
  <2> QED
    BY <1>3, <2>1, DiscardChunkStep, RecoverStep, BeginStep
<1>4. ASSUME NEW p \in Proc, RecoverCommit(p) PROVE Archive' /\ StagedNew'
  <2>1. op[p] \in OpId
    BY <1>1, <1>4, OnlyRun DEF RecoverCommit, Working
  <2> QED
    BY <1>4, <2>1, RecoverStep
<1>5. ASSUME NEW p \in Proc, Scan(p) PROVE Archive' /\ StagedNew'
  <2>1. ASSUME NEW s \in Source, StatSource(p, s) PROVE Archive' /\ StagedNew'
    BY <1>1, <2>1, QuietStep DEF StatSource, sqlVars, diskVars
  <2>2. CASE OpenSource(p)
    BY <1>1, <2>2, QuietStep DEF OpenSource, sqlVars, diskVars
  <2>3. CASE SkipRecord(p)
    BY <1>1, <2>3, QuietStep DEF SkipRecord, sqlVars, diskVars
  <2>4. CASE CloseSource(p)
    BY <1>1, <2>4, QuietStep DEF CloseSource, sqlVars, diskVars
  <2> QED
    BY <1>5, <2>1, <2>2, <2>3, <2>4, StageRecordStep, FinishScanStep DEF Scan
<1>6. ASSUME NEW p \in Proc, Publish(p) PROVE Archive' /\ StagedNew'
  <2>1. CASE PromoteChunk(p)
    <3>1. chunks \subseteq chunks'
      BY <2>1 DEF PromoteChunk
    <3> QED
      BY <1>1, <2>1, <3>1, QuietStep DEF PromoteChunk, sqlVars, localVars
  <2>2. CASE Return(p)
    BY <1>1, <2>2, QuietStep DEF Return, sqlVars, diskVars
  <2> QED
    BY <1>6, <2>1, <2>2, StageCheckpointsStep, FinishRunStep, StageLinesStep, ReplaceStep
       DEF Publish
<1>7. ASSUME NEW p \in Proc, Abort(p) PROVE Archive' /\ StagedNew'
  BY <1>1, <1>7, QuietStep DEF Abort, sqlVars, diskVars
<1>8. ASSUME UNCHANGED <<lock, sqlVars, diskVars, localVars>> PROVE Archive' /\ StagedNew'
  BY <1>1, <1>8, ArchiveFrame, StagedFrame DEF sqlVars, diskVars, localVars
<1>9. CASE Environment
  BY <1>8, <1>9, PowerLossStep DEF Environment, AppendLine, TruncateSource
<1>10. CASE UNCHANGED vars
  BY <1>8, <1>10 DEF vars
<1> QED
  BY <1>2, <1>3, <1>4, <1>5, <1>6, <1>7, <1>9, <1>10 DEF Next, Step, Recover

\* The archive's invariant holds of every reachable state.
THEOREM ArchiveInvariance == Spec => []ArchiveInv
BY ArchiveInit, ArchiveInvStep, PTL DEF Spec

\* Lines with chunks of their own have as many chunks as there are lines.
LEMMA ChunkCount ==
    ASSUME NEW ls \in Seq(Line), OwnBatches(ls)
    PROVE  Cardinality(ChunksOf(ls)) = Len(ls)
<1> DEFINE f == [i \in 1..Len(ls) |-> ls[i].chunk]
<1>1. Len(ls) \in Nat /\ DOMAIN ls = 1..Len(ls)
  OBVIOUS
<1>2. \A i \in 1..Len(ls) : f[i] \in ChunksOf(ls)
  BY <1>1 DEF ChunksOf, Elems
<1>3. \A i, j \in 1..Len(ls) : i # j => f[i] # f[j]
  BY <1>1 DEF OwnBatches
<1>4. \A c \in ChunksOf(ls) : \E i \in 1..Len(ls) : f[i] = c
  BY <1>1 DEF ChunksOf, Elems
<1>5. f \in [1..Len(ls) -> ChunksOf(ls)]
  BY <1>2
<1> HIDE DEF f
<1>6. f \in Bijection(1..Len(ls), ChunksOf(ls))
  BY <1>3, <1>4, <1>5 DEF Bijection, Injection, Surjection, IsInjective
<1>7. ExistsBijection(1..Len(ls), ChunksOf(ls))
  BY <1>6 DEF ExistsBijection
<1>8. IsFiniteSet(1..Len(ls)) /\ Cardinality(1..Len(ls)) = Len(ls)
  BY <1>1, FS_Interval, SMT
<1> QED
  BY <1>7, <1>8, FS_Bijection

\* A chain, as verify reads it: each line gives the chunk of the line before.
LEMMA ChainedLast ==
    ASSUME NEW ls \in Seq(Line), ChainedTo(ls, Genesis), NEW i \in DOMAIN ls
    PROVE  ls[i].prev = LastChunk(SubSeq(ls, 1, i - 1))
<1>1. i \in 1..Len(ls) /\ Len(ls) \in Nat
  OBVIOUS
<1>2. CASE i = 1
  <2>1. SubSeq(ls, 1, i - 1) = <<>>
    BY <1>2, SMT
  <2> QED
    BY <1>2, <2>1 DEF ChainedTo, LastChunk
<1>3. CASE i # 1
  <2> DEFINE b == SubSeq(ls, 1, i - 1)
  <2>1. Len(b) = i - 1 /\ i - 1 \in 1..Len(b) /\ b[i - 1] = ls[i - 1] /\ b # <<>>
    BY <1>1, <1>3, SMT
  <2>2. LastChunk(b) = ls[i - 1].chunk
    BY <2>1 DEF LastChunk
  <2> QED
    BY <1>3, <2>2 DEF ChainedTo
<1> QED
  BY <1>2, <1>3

-----------------------------------------------------------------------------
(* Theorems *)

\* The manifest is one hash chain with a chunk for each line, whoever appended
\* to it and whatever became of those who began to: verify accepts its links.
THEOREM ManifestIsChain == Spec => []ChainValid
<1>1. ArchiveInv => ChainValid
  <2> SUFFICES ASSUME ArchiveInv PROVE ChainValid
    OBVIOUS
  <2>1. manifest \in Seq(Line) /\ ChainedTo(manifest, Genesis) /\ OwnBatches(manifest)
    BY DEF ArchiveInv, IInv, TypeOK, ManifestsSound
  <2> QED
    BY <2>1, ChunkCount, ChainedLast DEF ChainValid
<1> QED
  BY ArchiveInvariance, <1>1, PTL

\* No record is in two lines of the manifest, through any number of interrupted,
\* repeated and rewound backups.
THEOREM NothingTwice == Spec => []NoDuplicates
<1>1. ArchiveInv => NoDuplicates
  BY DEF ArchiveInv, ManifestsSound, OwnBatches, NoDuplicates
<1> QED
  BY ArchiveInvariance, <1>1, PTL

\* A line without its chunk is one of the operation that is pending: what
\* recovery finds missing was never acknowledged.
THEOREM MissingArePending == Spec => []MissingChunksArePending
<1>1. ArchiveInv => MissingChunksArePending
  BY DEF ArchiveInv, Settled, MissingChunksArePending
<1> QED
  BY ArchiveInvariance, <1>1, PTL

-----------------------------------------------------------------------------
(* While the machine keeps power *)

\* What the chunk directory has beside the manifest while the power stays.
PowerKept == ManifestChunksPresent /\ NoStrayChunks

\* Chunk names come before the lines that give them and go, if at all, before
\* the rows that know them; only a power loss changes that order.
LEMMA KeptStep ==
    ASSUME ~ PowerLossAllowed, ArchiveInv, PowerKept, [Next]_vars
    PROVE  PowerKept'
<1>0. IInv /\ TypeOK /\ ManifestChunksPresent /\ NoStrayChunks
  BY DEF ArchiveInv, IInv, PowerKept
<1>1. ASSUME UNCHANGED <<chunks, manifest, ops, pLines>> PROVE PowerKept'
  BY <1>0, <1>1 DEF PowerKept, ManifestChunksPresent, NoStrayChunks
<1>2. ASSUME NEW o, ops \subseteq {o}, ops' = {}, UNCHANGED <<chunks, manifest>>,
             ChunksOf(pLines[o]) \cap chunks \subseteq ChunksOf(manifest)
      PROVE  PowerKept'
  BY <1>0, <1>2 DEF PowerKept, ManifestChunksPresent, NoStrayChunks
<1>3. ASSUME NEW o, Elems(pLines[o]) \subseteq Elems(manifest)
      PROVE  ChunksOf(pLines[o]) \subseteq ChunksOf(manifest)
  BY <1>3 DEF ChunksOf
<1>4. ASSUME NEW p \in Proc, NEW o \in OpId, RecoverDiscardChunk(p, o) PROVE PowerKept'
  <2>1. /\ pc[p] = "recover" /\ o \in queue[p]
        /\ UNCHANGED <<manifest, ops, pLines>>
    BY <1>4 DEF RecoverDiscardChunk, sqlVars
  <2>2. PICK m \in Elems(pLines[o]) \ Elems(manifest) : chunks' = chunks \ {m.chunk}
    BY <1>4 DEF RecoverDiscardChunk, Abandoned
  <2>3. PICK j \in DOMAIN pLines[o] : m = pLines[o][j]
    BY <2>2 DEF Elems
  <2>4. m.chunk = <<o, j>> /\ o \in ops
    BY <1>0, <2>1, <2>3 DEF IInv, LineNames, OpsInv
  <2>5. ASSUME NEW l \in Elems(manifest) PROVE l.chunk # m.chunk
    <3> SUFFICES ASSUME l.chunk = m.chunk PROVE FALSE
      OBVIOUS
    <3>1. l.chunk[1] = o
      BY <2>4, SMT
    <3>2. PICK k \in DOMAIN pLines[o] : l = pLines[o][k]
      BY <1>0, <2>4, <3>1 DEF IInv, LineOwner, Elems
    <3>3. l.chunk = <<o, k>>
      BY <1>0, <3>2 DEF IInv, LineNames
    <3>4. k = j
      BY <2>4, <3>3
    <3> QED
      BY <2>2, <2>3, <3>2, <3>4
  <2> QED
    BY <1>0, <2>1, <2>2, <2>5 DEF PowerKept, ManifestChunksPresent, NoStrayChunks, ChunksOf
<1>5. ASSUME NEW p \in Proc, NEW o \in OpId, RecoverDiscardRows(p, o) PROVE PowerKept'
  <2>1. /\ pc[p] = "recover" /\ o \in queue[p] /\ Abandoned(o) = {}
        /\ ops' = ops \ {o} /\ UNCHANGED <<chunks, manifest>>
    BY <1>5 DEF RecoverDiscardRows, DeleteRows, diskVars
  <2>2. ops = {o}
    BY <1>0, <2>1 DEF IInv, OpsInv, AtMostOnePending
  <2>3. ChunksOf(pLines[o]) \cap chunks \subseteq ChunksOf(manifest)
    BY <2>1 DEF Abandoned, ChunksOf
  <2> QED
    BY <1>2, <2>1, <2>2, <2>3
<1>6. ASSUME NEW p \in Proc, NEW o \in OpId, RecoverSync(p, o) PROVE PowerKept'
  BY <1>1, <1>6 DEF RecoverSync, SyncFiles, sqlVars
<1>7. ASSUME NEW p \in Proc, NEW o \in OpId, RecoverMissingChunk(p, o) PROVE PowerKept'
  BY <1>1, <1>7 DEF RecoverMissingChunk, sqlVars, diskVars
<1>8. ASSUME NEW p \in Proc, NEW o \in OpId, BeginBackup(p, o) PROVE PowerKept'
  <2>1. /\ pc[p] = "recover" /\ queue[p] = {} /\ UNCHANGED <<chunks, manifest>>
    BY <1>8 DEF BeginBackup, diskVars
  <2>2. ops = {}
    BY <1>0, <2>1 DEF IInv, OpsInv
  <2> QED
    BY <1>0, <2>1, <2>2 DEF PowerKept, ManifestChunksPresent, NoStrayChunks
<1>9. ASSUME NEW p \in Proc, RecoverCommit(p) \/ CommitPending(p) \/ DropOperation(p)
      PROVE  PowerKept'
  <2>1. /\ pc[p] \in {"recommit", "commit", "drop"}
        /\ ops' = ops \ {op[p]} /\ UNCHANGED <<chunks, manifest>>
    BY <1>9 DEF RecoverCommit, CommitPending, DropOperation, CommitRows, DeleteRows, diskVars
  <2>2. ops = {op[p]}
    BY <1>0, <2>1, OnlyRun DEF Working
  <2>3. Elems(pLines[op[p]]) \subseteq Elems(manifest)
    <3>1. CASE pc[p] = "drop"
      <4>1. pLines[op[p]] = <<>>
        BY <3>1 DEF ArchiveInv, StagedNew
      <4> QED
        BY <4>1, SMT DEF Elems
    <3> QED
      BY <1>0, <2>1, <3>1 DEF IInv, PublishInv
  <2> QED
    BY <1>2, <1>3, <2>1, <2>2, <2>3
<1>10. ASSUME NEW p \in Proc, Scan(p) PROVE PowerKept'
  BY <1>1, <1>10 DEF Scan, StatSource, OpenSource, StageRecord, SkipRecord, CloseSource,
     FinishScan, sqlVars, diskVars
<1>11. ASSUME NEW p \in Proc, CommitCheckpoints(p) \/ StageCheckpoints(p) \/ SyncMetadata(p)
                \/ Return(p) \/ Abort(p) \/ LockArchive(p)
       PROVE  PowerKept'
  BY <1>1, <1>11 DEF CommitCheckpoints, StageCheckpoints, SyncMetadata, SyncFiles, Return,
     Abort, LockArchive, sqlVars, diskVars
<1>12. ASSUME NEW p \in Proc, StageLines(p) PROVE PowerKept'
  <2>1. /\ pc[p] = "lines" /\ pLines' = [pLines EXCEPT ![op[p]] = lines'[p]]
        /\ UNCHANGED <<chunks, manifest, ops>>
    BY <1>12 DEF StageLines, diskVars
  <2>2. ops = {op[p]} /\ op[p] \in OpId /\ pLines[op[p]] = <<>>
    BY <1>0, <2>1, OnlyRun DEF Working, IInv, StagedInChunks
  <2>3. ChunksOf(pLines[op[p]]) = {}
    BY <2>2, SMT DEF ChunksOf, Elems
  <2> QED
    BY <1>0, <2>1, <2>2, <2>3 DEF PowerKept, ManifestChunksPresent, NoStrayChunks
<1>13. ASSUME NEW p \in Proc, PromoteChunk(p) PROVE PowerKept'
  <2>1. pc[p] = "promote" /\ UNCHANGED <<manifest, ops, pLines>>
    BY <1>13 DEF PromoteChunk, sqlVars
  <2>2. PICK k \in DOMAIN lines[p] : chunks' = chunks \cup {lines[p][k].chunk}
    BY <1>13 DEF PromoteChunk
  <2>3. ops = {op[p]} /\ lines[p] = pLines[op[p]]
    BY <1>0, <2>1, OnlyRun DEF Working, IInv, PublishInv
  <2>4. lines[p][k].chunk \in ChunksOf(pLines[op[p]])
    BY <2>2, <2>3 DEF ChunksOf, Elems
  <2> QED
    BY <1>0, <2>1, <2>2, <2>3, <2>4 DEF PowerKept, ManifestChunksPresent, NoStrayChunks
<1>14. ASSUME NEW p \in Proc, ReplaceManifest(p) PROVE PowerKept'
  <2>1. /\ manifest' = manifest \o lines[p] /\ ChunksOf(lines[p]) \subseteq chunks
        /\ UNCHANGED <<chunks, ops, pLines>>
    BY <1>14 DEF ReplaceManifest, AppendedManifest, AllPromoted, sqlVars
  <2>2. manifest \in Seq(Line) /\ lines[p] \in Seq(Line)
    BY <1>0 DEF TypeOK
  <2>3. Elems(manifest') = Elems(manifest) \cup Elems(lines[p])
    BY <2>1, <2>2, ElemsConcat
  <2>4. ChunksOf(manifest') = ChunksOf(manifest) \cup ChunksOf(lines[p])
    BY <2>3 DEF ChunksOf
  <2> QED
    BY <1>0, <2>1, <2>4 DEF PowerKept, ManifestChunksPresent, NoStrayChunks
<1>15. CASE Environment
  BY <1>1, <1>15 DEF Environment, PowerLoss, AppendLine, TruncateSource, sqlVars, diskVars
<1>16. CASE UNCHANGED vars
  BY <1>1, <1>16 DEF vars, sqlVars, diskVars
<1> QED
  BY <1>4, <1>5, <1>6, <1>7, <1>8, <1>9, <1>10, <1>11, <1>12, <1>13, <1>14, <1>15, <1>16
     DEF Next, Step, Recover, Publish

\* While the machine keeps power, the chunk of every listed line is there: what
\* verify and restore read without the lock is complete at every moment.
THEOREM ChunksPresent == ~ PowerLossAllowed => (Spec => []ManifestChunksPresent)
<1> SUFFICES ASSUME ~ PowerLossAllowed PROVE Spec => []ManifestChunksPresent
  OBVIOUS
<1>1. Init => PowerKept
  BY SMT DEF Init, PowerKept, ManifestChunksPresent, NoStrayChunks, ChunksOf, Elems
<1>2. ArchiveInv /\ PowerKept /\ [Next]_vars => PowerKept'
  BY KeptStep
<1>3. PowerKept => ManifestChunksPresent
  BY DEF PowerKept
<1> QED
  BY <1>1, <1>2, <1>3, ArchiveInvariance, PTL DEF Spec

\* While the machine keeps power, nothing is left in the chunk directory that
\* neither the manifest nor a pending operation knows.
THEOREM NoStrays == ~ PowerLossAllowed => (Spec => []NoStrayChunks)
<1> SUFFICES ASSUME ~ PowerLossAllowed PROVE Spec => []NoStrayChunks
  OBVIOUS
<1>1. Init => PowerKept
  BY SMT DEF Init, PowerKept, ManifestChunksPresent, NoStrayChunks, ChunksOf, Elems
<1>2. ArchiveInv /\ PowerKept /\ [Next]_vars => PowerKept'
  BY KeptStep
<1>3. PowerKept => NoStrayChunks
  BY DEF PowerKept
<1> QED
  BY <1>1, <1>2, <1>3, ArchiveInvariance, PTL DEF Spec

-----------------------------------------------------------------------------
(* Refinement *)

(***************************************************************************)
(* Backup implements ArchiveLedger: what is durable of the manifest grows  *)
(* by whole operations, each of new records only, and seen_ids catches up  *)
(* with all of it before there is more.  It needs ArchiveInv: a step says  *)
(* what it writes, and the invariant what is already there.  The fairness  *)
(* of LedgerFairSpec is left to TLC.                                       *)
(***************************************************************************)

\* The ledger as Backup has it.
Batches == [i \in DOMAIN dManifest |-> dManifest[i].recs]

\* The records of the ledger are those of the lines.
LEMMA ArchivedRecs == Ledger!Archived(Batches) = RecsOf(dManifest)
<1>1. {Batches[i] : i \in DOMAIN Batches} = {l.recs : l \in Elems(dManifest)}
  BY DEF Batches, Elems
<1> QED
  BY <1>1 DEF Ledger!Archived, RecsOf

\* With nothing pending, the records that are skipped are those of the ledger.
LEMMA NothingPending == ArchiveInv /\ ops = {} => seen = RecsOf(dManifest)
<1> SUFFICES ASSUME ArchiveInv, ops = {} PROVE seen = RecsOf(dManifest)
  OBVIOUS
<1>1. \A r \in seen : \E l \in Elems(dManifest) : r \in l.recs
  BY DEF ArchiveInv, IInv, SeenRecoverable
<1>2. \A l \in Elems(dManifest) : l.recs \subseteq seen
  BY DEF ArchiveInv, Settled
<1> QED
  BY <1>1, <1>2 DEF RecsOf

\* The same while the manifest is ahead of what is durable of it: the pending
\* operation's lines are all in what is ahead.
LEMMA AheadOfDurable ==
    ASSUME ArchiveInv, manifest # dManifest
    PROVE  /\ seen = RecsOf(dManifest)
           /\ \E ls \in Seq(Line) : ls # <<>> /\ manifest = dManifest \o ls
<1>1. DurablePrefix /\ ManifestsSound /\ TypeOK /\ AllOrNone /\ Settled /\ AtMostOnePending
  BY DEF ArchiveInv, IInv
<1>2. PICK o \in ops : pLines[o] # <<>> /\ manifest = dManifest \o pLines[o]
  BY <1>1 DEF DurablePrefix
<1>3. pLines[o] \in Seq(Line) /\ ops = {o}
  BY <1>1, <1>2 DEF TypeOK, AtMostOnePending
<1>4. ~ Elems(pLines[o]) \subseteq Elems(dManifest)
  BY <1>1, <1>3, ListedIsDurable
<1>5. Elems(pLines[o]) \cap Elems(dManifest) = {}
  BY <1>1, <1>2, <1>4 DEF AllOrNone
<1>6. \A l \in Elems(dManifest) : l.recs \subseteq seen
  BY <1>1, <1>3, <1>5 DEF Settled
<1>7. \A r \in seen : \E l \in Elems(dManifest) : r \in l.recs
  BY DEF ArchiveInv, IInv, SeenRecoverable
<1>8. seen = RecsOf(dManifest)
  BY <1>6, <1>7 DEF RecsOf
<1> QED
  BY <1>2, <1>3, <1>8

\* When the manifest becomes durable, the ledger gets new batches or stays.
LEMMA PublishStep ==
    ASSUME ArchiveInv, dManifest' = manifest, UNCHANGED seen
    PROVE  [Ledger!LedgerNext]_(Ledger!ledgerVars)
<1>1. CASE manifest = dManifest
  <2>1. Batches' = Batches
    BY <1>1 DEF Batches
  <2> QED
    BY <2>1 DEF Ledger!ledgerVars, Batches
<1>2. CASE manifest # dManifest
  <2>1. seen = RecsOf(dManifest)
    BY <1>2, AheadOfDurable
  <2>2. PICK ls \in Seq(Line) : ls # <<>> /\ manifest = dManifest \o ls
    BY <1>2, AheadOfDurable
  <2>3. dManifest \in Seq(Line) /\ OwnBatches(manifest)
    BY DEF ArchiveInv, IInv, TypeOK, ManifestsSound
  <2> DEFINE old == Batches
             new == [i \in DOMAIN manifest |-> manifest[i].recs]
  <2>4. /\ Len(dManifest) \in Nat /\ Len(ls) \in Nat \ {0}
        /\ DOMAIN dManifest = 1..Len(dManifest)
        /\ DOMAIN manifest = 1..(Len(dManifest) + Len(ls))
        /\ \A i \in 1..Len(dManifest) : manifest[i] = dManifest[i]
    BY <2>2, <2>3, SMT
  <2>5. /\ \A i \in DOMAIN manifest : manifest[i].recs # {}
        /\ \A i, j \in DOMAIN manifest : i # j => manifest[i].recs \cap manifest[j].recs = {}
    BY <2>3 DEF OwnBatches
  <2>6. /\ old = [i \in 1..Len(dManifest) |-> dManifest[i].recs]
        /\ new = [i \in 1..(Len(dManifest) + Len(ls)) |-> manifest[i].recs]
    BY <2>4 DEF Batches
  <2>7. /\ old \in Seq(SUBSET UNION {l.recs : l \in Elems(manifest)})
        /\ new \in Seq(SUBSET UNION {l.recs : l \in Elems(manifest)})
    <3> DEFINE S == SUBSET UNION {l.recs : l \in Elems(manifest)}
    <3>1. \A i \in DOMAIN manifest : manifest[i].recs \in S
      BY DEF Elems
    <3>2. /\ \A i \in 1..(Len(dManifest) + Len(ls)) : manifest[i].recs \in S
          /\ \A i \in 1..Len(dManifest) : dManifest[i].recs \in S
      <4>1. \A i \in 1..Len(dManifest) : i \in 1..(Len(dManifest) + Len(ls))
        BY <2>4, SMT
      <4> HIDE DEF S
      <4> QED
        BY <2>4, <3>1, <4>1
    <3> HIDE DEF S, old, new
    <3>3. Len(dManifest) + Len(ls) \in Nat
      BY <2>4, SMT
    <3> QED
      BY <2>4, <2>6, <3>2, <3>3, SMT DEF S
  <2>8. Len(old) = Len(dManifest) /\ Len(new) = Len(dManifest) + Len(ls)
    <3> HIDE DEF old, new
    <3> QED
      BY <2>4, <2>6, <2>7, SMT
  <2>9. SubSeq(new, 1, Len(old)) = old
    <3>1. \A i \in 1..Len(old) : new[i] = old[i]
      BY <2>4, <2>6, <2>8, SMT
    <3> HIDE DEF old, new
    <3>2. Len(old) \in Nat /\ Len(old) <= Len(new)
      BY <2>4, <2>8, SMT
    <3> QED
      BY <2>7, <3>1, <3>2, SMT
  <2>10. ASSUME NEW i \in (Len(old) + 1)..Len(new)
         PROVE  new[i] # {} /\ \A j \in 1..(i - 1) : new[i] \cap new[j] = {}
    <3>1. i \in DOMAIN manifest /\ \A j \in 1..(i - 1) : j \in DOMAIN manifest /\ j # i
      BY <2>4, <2>8, SMT
    <3> QED
      BY <2>5, <3>1
  <2>11. Ledger!Extends(new, old)
    <3>1. Len(new) > Len(old)
      BY <2>4, <2>8, SMT
    <3> HIDE DEF old, new
    <3> QED
      BY <2>9, <2>10, <3>1 DEF Ledger!Extends
  <2>12. Batches' = new
    BY DEF Batches
  <2>13. Ledger!PublishBatches
    BY <2>1, <2>11, <2>12, ArchivedRecs DEF Ledger!PublishBatches, Batches
  <2> QED
    BY <2>13 DEF Ledger!LedgerNext
<1> QED
  BY <1>1, <1>2

\* A commit makes known all that was published.
LEMMA AcknowledgeStep ==
    ASSUME ArchiveInv', ops' = {}, UNCHANGED dManifest
    PROVE  [Ledger!LedgerNext]_(Ledger!ledgerVars)
<1>1. (ArchiveInv /\ ops = {} => seen = RecsOf(dManifest))'
  BY NothingPending, PTL
<1>2. seen' = RecsOf(dManifest)
  BY <1>1 DEF RecsOf, Elems
<1>3. Batches' = Batches
  BY DEF Batches
<1>4. CASE seen = RecsOf(dManifest)
  BY <1>2, <1>3, <1>4 DEF Ledger!ledgerVars, Batches
<1>5. CASE seen # RecsOf(dManifest)
  <2>1. Ledger!Acknowledge
    BY <1>2, <1>3, <1>5, ArchivedRecs DEF Ledger!Acknowledge, Batches
  <2> QED
    BY <2>1 DEF Ledger!LedgerNext
<1> QED
  BY <1>4, <1>5

\* Every step of the command is a step of the ledger or none.
LEMMA LedgerStep ==
    ASSUME ArchiveInv, ArchiveInv', [Next]_vars
    PROVE  [Ledger!LedgerNext]_(Ledger!ledgerVars)
<1>1. ASSUME UNCHANGED <<seen, dManifest>> PROVE [Ledger!LedgerNext]_(Ledger!ledgerVars)
  BY <1>1 DEF Ledger!ledgerVars
<1>2. ASSUME NEW p \in Proc, NEW o \in OpId,
             RecoverDiscardChunk(p, o) \/ RecoverDiscardRows(p, o)
               \/ RecoverMissingChunk(p, o) \/ BeginBackup(p, o)
      PROVE  UNCHANGED <<seen, dManifest>>
  BY <1>2 DEF RecoverDiscardChunk, RecoverDiscardRows, RecoverMissingChunk, BeginBackup,
     sqlVars, diskVars
<1>3. ASSUME NEW p \in Proc, NEW o \in OpId, RecoverSync(p, o)
      PROVE  [Ledger!LedgerNext]_(Ledger!ledgerVars)
  BY <1>3, PublishStep DEF RecoverSync, SyncFiles, sqlVars
<1>4. ASSUME NEW p \in Proc, SyncMetadata(p) PROVE [Ledger!LedgerNext]_(Ledger!ledgerVars)
  BY <1>4, PublishStep DEF SyncMetadata, SyncFiles, sqlVars
<1>5. ASSUME NEW p \in Proc, RecoverCommit(p) \/ CommitPending(p)
      PROVE  [Ledger!LedgerNext]_(Ledger!ledgerVars)
  <2>1. /\ pc[p] \in {"recommit", "commit"} /\ ops' = ops \ {op[p]} /\ UNCHANGED dManifest
    BY <1>5 DEF RecoverCommit, CommitPending, CommitRows, DeleteRows, diskVars
  <2>2. ops = {op[p]}
    BY <2>1, OnlyRun DEF ArchiveInv, Working
  <2> QED
    BY <2>1, <2>2, AcknowledgeStep
<1>6. ASSUME NEW p \in Proc, Scan(p) PROVE UNCHANGED <<seen, dManifest>>
  BY <1>6 DEF Scan, StatSource, OpenSource, StageRecord, SkipRecord, CloseSource, FinishScan,
     sqlVars, diskVars
<1>7. ASSUME NEW p \in Proc,
             LockArchive(p) \/ CommitCheckpoints(p) \/ DropOperation(p) \/ StageCheckpoints(p)
               \/ StageLines(p) \/ PromoteChunk(p) \/ ReplaceManifest(p) \/ Return(p) \/ Abort(p)
      PROVE  UNCHANGED <<seen, dManifest>>
  BY <1>7 DEF LockArchive, CommitCheckpoints, DropOperation, StageCheckpoints, StageLines,
     PromoteChunk, ReplaceManifest, Return, Abort, sqlVars, diskVars
<1>8. CASE PowerLoss
  <2>1. dManifest' \in {manifest, dManifest} /\ UNCHANGED seen
    BY <1>8 DEF PowerLoss, sqlVars
  <2> QED
    BY <1>1, <2>1, PublishStep
<1>9. ASSUME NEW s \in Source, (\E t \in Text : AppendLine(s, t)) \/ TruncateSource(s)
      PROVE  UNCHANGED <<seen, dManifest>>
  BY <1>9 DEF AppendLine, TruncateSource, sqlVars, diskVars
<1>10. CASE UNCHANGED vars
  BY <1>1, <1>10 DEF vars, sqlVars, diskVars
<1> QED
  BY <1>1, <1>2, <1>3, <1>4, <1>5, <1>6, <1>7, <1>8, <1>9, <1>10
     DEF Next, Step, Recover, Publish, Environment

\* The ledger is empty at first.
LEMMA LedgerStart == Init => Ledger!LedgerInit
<1> SUFFICES ASSUME Init PROVE Ledger!LedgerInit
  OBVIOUS
<1>1. dManifest = <<>> /\ seen = {}
  BY DEF Init
<1>2. [i \in DOMAIN dManifest |-> dManifest[i].recs] = <<>>
  BY <1>1, SMT
<1> QED
  BY <1>1, <1>2 DEF Ledger!LedgerInit

\* The command implements the append-only ledger: whatever fails, what would
\* survive a power loss grows by whole operations of new records, and seen_ids
\* takes in each before the next.
THEOREM Refinement == Spec => ImplementsLedger
<1>1. ArchiveInv /\ ArchiveInv' /\ [Next]_vars => [Ledger!LedgerNext]_(Ledger!ledgerVars)
  BY LedgerStep
<1> QED
  BY LedgerStart, <1>1, ArchiveInvariance, PTL DEF Spec, ImplementsLedger, Ledger!LedgerSpec
===============================================================================
