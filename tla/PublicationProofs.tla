------------------------- MODULE PublicationProofs -------------------------
(***************************************************************************)
(* The destination stays consistent for any number of inits and sources.   *)
(***************************************************************************)
EXTENDS Publication, TLAPS

-----------------------------------------------------------------------------
(* Operators *)

\* The chunks of a source are chunks.
LEMMA ListedType ==
    ASSUME size \in [Source -> 0..MaxChunks], NEW s \in Source
    PROVE  Listed(s) \subseteq Chunk
<1>1. size[s] \in 0..MaxChunks
  OBVIOUS
<1>2. 1..size[s] \subseteq 1..MaxChunks
  BY <1>1, ChunksAssumption, SMT
<1> QED
  BY <1>2 DEF Listed, Chunk

\* So is the chunk of the destination.
LEMMA OwnChunkType == OwnChunk \in Chunk
BY DEF Chunk

\* Inits and sources are processes, and nobody is both.
LEMMA ProcTypes ==
    /\ Initiator \subseteq Proc
    /\ Source \subseteq Proc
    /\ WithFile \subseteq Initiator
    /\ None \notin Proc
    /\ \A p \in Initiator : p \notin Source
BY ProcAssumption DEF Proc

-----------------------------------------------------------------------------
\* The initial states satisfy the invariant.
LEMMA PublicationInit == Init => PublicationInv
<1> SUFFICES ASSUME Init PROVE PublicationInv
  OBVIOUS
<1> USE ChunksAssumption, ProcTypes DEF Init
<1>1. TypeOK
  <2>1. size \in [Source -> 0..MaxChunks]
    BY SMT
  <2>2. {} \in SUBSET Chunk
    OBVIOUS
  <2>3. todo \in [Source -> SUBSET Chunk]
    BY <2>2
  <2>4. pc \in [Proc -> {"idle", "sync"} \cup InitLocked \cup SyncLocked]
    OBVIOUS
  <2> QED
    BY <2>1, <2>2, <2>3, <2>4 DEF TypeOK
<1>2. Roles /\ LockHeld /\ InitPrepared /\ CopyPrepared
  BY SMT DEF Roles, LockHeld, Holding, InitLocked, SyncLocked, InitPrepared, CopyPrepared
<1>3. RowsHaveKey /\ ListedChunksPresent /\ RecoveryFileOpens
  BY SMT DEF RowsHaveKey, ListedChunksPresent, RecoveryFileOpens
<1>4. OwnRows
  BY DEF OwnRows
<1> QED
  BY <1>1, <1>2, <1>3, <1>4 DEF PublicationInv

\* Types, and who is where.
LEMMA PublicationTypes == TypeOK /\ Roles /\ [Next]_vars => TypeOK' /\ Roles'
<1> SUFFICES ASSUME TypeOK, Roles, [Next]_vars PROVE TypeOK' /\ Roles'
  OBVIOUS
<1> USE ProcTypes DEF TypeOK, Roles, InitLocked, SyncLocked, Goto, Leave, Lock,
                      archive, local
<1>1. CASE UNCHANGED vars
  BY <1>1, SMT DEF vars
<1>2. ASSUME NEW p \in Initiator, InitStep(p) PROVE TypeOK' /\ Roles'
  <2>1. AfterReset(p) \in {"truncate", "publish"}
    BY DEF AfterReset
  <2>2. KeyOrNew(p) \in Proc \cup {None}
    BY DEF KeyOrNew
  <2>3. CASE LockForInit(p)
    BY <2>3, SMT DEF LockForInit
  <2>4. CASE RefuseInit(p)
    BY <2>4, SMT DEF RefuseInit
  <2>5. CASE StageKey(p)
    BY <2>5, SMT DEF StageKey
  <2>6. CASE ResetState(p)
    <3>1. rows' \in SUBSET {"stale", "legacy", "live"} /\ unimported' \in BOOLEAN
      BY <2>6, Zenon DEF ResetState, MarkImported
    <3> QED
      BY <2>1, <2>6, <3>1, SMT DEF ResetState
  <2>10. CASE OpenState(p)
    <3>1. rows' \in SUBSET {"stale", "legacy", "live"} /\ unimported' \in BOOLEAN
      <4>1. MigratedRows \in SUBSET {"stale", "legacy", "live"}
        BY DEF MigratedRows
      <4> QED
        BY <2>10, <4>1, Zenon DEF OpenState, MarkImported
    <3> QED
      BY <2>10, <3>1, SMT DEF OpenState
  <2>7. CASE TruncateRecovery(p)
    BY <2>7, SMT DEF TruncateRecovery
  <2>8. CASE WriteRecovery(p)
    BY <2>8, SMT DEF WriteRecovery
  <2>9. CASE PublishKey(p)
    BY <2>2, <2>9, SMT DEF PublishKey
  <2> QED
    BY <1>2, <2>3, <2>4, <2>5, <2>6, <2>7, <2>8, <2>9, <2>10 DEF InitStep
<1>3. ASSUME NEW s \in Source, BackupSource(s) PROVE TypeOK' /\ Roles'
  <2>1. PICK n \in {size[s], size[s] + 1} :
          n <= MaxChunks /\ size' = [size EXCEPT ![s] = n]
    BY <1>3 DEF BackupSource
  <2>2. n \in 0..MaxChunks
    BY <2>1, ChunksAssumption, SMT
  <2> QED
    BY <1>3, <2>1, <2>2, SMT DEF BackupSource
<1>4. ASSUME NEW s \in Source, RefuseSync(s) PROVE TypeOK' /\ Roles'
  BY <1>4, SMT DEF RefuseSync
<1>5. ASSUME NEW s \in Source, SyncStep(s) PROVE TypeOK' /\ Roles'
  <2>1. Listed(s) \in SUBSET Chunk
    BY ListedType
  <2>2. CASE LockForSync(s)
    BY <2>1, <2>2, SMT DEF LockForSync, ToCopy
  <2>3. CASE CopyChunk(s)
    BY <2>3, SMT DEF CopyChunk
  <2>4. CASE CopyManifest(s)
    BY <2>1, <2>4, SMT DEF CopyManifest
  <2>5. CASE CopyKey(s)
    BY <2>5, SMT DEF CopyKey
  <2> QED
    BY <1>5, <2>2, <2>3, <2>4, <2>5 DEF SyncStep
<1>6. ASSUME NEW p \in Proc, Fail(p) PROVE TypeOK' /\ Roles'
  BY <1>6, SMT DEF Fail
<1>7. CASE BackupHere
  <2>1. manifest = None \/ manifest \in SUBSET Chunk
    OBVIOUS
  <2>2. (IF manifest = None THEN {} ELSE manifest) \cup {OwnChunk} \in SUBSET Chunk
    BY <2>1, OwnChunkType
  <2>3. chunks \cup {OwnChunk} \in SUBSET Chunk
    BY OwnChunkType
  <2>4. /\ manifest' \in (SUBSET Chunk) \cup {None}
        /\ chunks' \in SUBSET Chunk
    BY <1>7, <2>2, <2>3, Zenon DEF BackupHere
  <2>5. /\ UNCHANGED <<lock, key, recovery, size, pc, todo>>
        /\ rows' \in SUBSET {"stale", "legacy", "live"} /\ unimported' \in BOOLEAN
    BY <1>7, Zenon DEF BackupHere, MarkImported, MigratedRows
  <2> QED
    BY <2>4, <2>5, SMT
<1> QED
  BY <1>1, <1>2, <1>3, <1>4, <1>5, <1>6, <1>7 DEF Next

-----------------------------------------------------------------------------
\* Every step keeps the invariant.
LEMMA PublicationStep == PublicationInv /\ [Next]_vars => PublicationInv'
<1> SUFFICES ASSUME PublicationInv, [Next]_vars PROVE PublicationInv'
  OBVIOUS
<1>types. TypeOK' /\ Roles'
  BY PublicationTypes DEF PublicationInv
<1> USE <1>types, ProcTypes
    DEF PublicationInv, LockHeld, Holding, InitPrepared, RowsHaveKey, CopyPrepared,
        ListedChunksPresent, RecoveryFileOpens, OwnRows, TypeOK, Roles, InitLocked, SyncLocked,
        Goto, Leave, Lock, LockFree, archive, local
<1>1. CASE UNCHANGED vars
  BY <1>1, SMT DEF vars, Listed
<1>2. ASSUME NEW p \in Initiator, InitStep(p) PROVE PublicationInv'
  <2>1. CASE LockForInit(p)
    BY <2>1, SMT DEF LockForInit, Listed
  <2>2. CASE RefuseInit(p)
    BY <2>2, SMT DEF RefuseInit, Listed
  <2>3. CASE StageKey(p)
    BY <2>3, SMT DEF StageKey, Fresh, Listed
  <2>4. CASE ResetState(p)
    BY <2>4, SMT DEF ResetState, AfterReset, MarkImported, Listed
  <2>8. CASE OpenState(p)
    BY <2>8, SMT DEF OpenState, MarkImported, MigratedRows, Listed
  <2>5. CASE TruncateRecovery(p)
    BY <2>5, SMT DEF TruncateRecovery, Listed
  <2>6. CASE WriteRecovery(p)
    BY <2>6, SMT DEF WriteRecovery, Listed
  <2>7. CASE PublishKey(p)
    BY <2>7, SMT DEF PublishKey, KeyOrNew, Listed
  <2> QED
    BY <1>2, <2>1, <2>2, <2>3, <2>4, <2>5, <2>6, <2>7, <2>8 DEF InitStep
<1>3. ASSUME NEW s \in Source, BackupSource(s) PROVE PublicationInv'
  BY <1>3, SMT DEF BackupSource, Listed
<1>4. ASSUME NEW s \in Source, RefuseSync(s) PROVE PublicationInv'
  BY <1>4, SMT DEF RefuseSync, Listed
<1>5. ASSUME NEW s \in Source, SyncStep(s) PROVE PublicationInv'
  <2>1. CASE LockForSync(s)
    BY <2>1, SMT DEF LockForSync, ToCopy, Listed
  <2>2. CASE CopyChunk(s)
    BY <2>2, SMT DEF CopyChunk, Listed
  <2>3. CASE CopyManifest(s)
    BY <2>3, SMT DEF CopyManifest, ChunksCopied, Listed
  <2>4. CASE CopyKey(s)
    BY <2>4, SMT DEF CopyKey, Listed
  <2> QED
    BY <1>5, <2>1, <2>2, <2>3, <2>4 DEF SyncStep
<1>6. ASSUME NEW p \in Proc, Fail(p) PROVE PublicationInv'
  BY <1>6, SMT DEF Fail, Listed
<1>7. CASE BackupHere
  BY <1>7, SMT DEF BackupHere, MarkImported, MigratedRows, Listed
<1> QED
  BY <1>1, <1>2, <1>3, <1>4, <1>5, <1>6, <1>7 DEF Next

-----------------------------------------------------------------------------
(* Theorems *)

\* The inductive invariant holds in every reachable state.
THEOREM PublicationInvariance == Spec => []PublicationInv
<1> QED
  BY PublicationInit, PublicationStep, PTL DEF Spec

\* A manifest in the destination never lists a chunk that is not there.
THEOREM ListedPresent == Spec => []ListedChunksPresent
<1>1. PublicationInv => ListedChunksPresent
  BY DEF PublicationInv
<1> QED
  BY PublicationInvariance, <1>1, PTL

\* The recovery file opens the archive that init created.
THEOREM RecoveryOpens == Spec => []RecoveryFileOpens
<1>1. PublicationInv => RecoveryFileOpens
  BY DEF PublicationInv
<1> QED
  BY PublicationInvariance, <1>1, PTL

\* No row of an earlier archive makes a backup of a new one skip a record.
THEOREM RowsOwned == Spec => []OwnRows
<1>1. PublicationInv => OwnRows
  BY DEF PublicationInv
<1> QED
  BY PublicationInvariance, <1>1, PTL

\* Rows that backups made are never cleared by an init.
THEOREM RowsKept == Spec => LiveRowsKept
<1>1. PublicationInv /\ [Next]_vars => ["live" \in rows => "live" \in rows']_vars
  <2> SUFFICES ASSUME PublicationInv, Next, "live" \in rows PROVE "live" \in rows'
    BY DEF vars
  <2>1. ASSUME NEW p \in Initiator PROVE ~ ResetState(p)
    BY SMT DEF PublicationInv, RowsHaveKey, InitPrepared, ResetState, InitLocked
  <2> QED
    BY <2>1, SMT DEF Next, InitStep, LockForInit, RefuseInit, StageKey, OpenState,
       MigratedRows, TruncateRecovery, WriteRecovery, PublishKey, BackupSource, RefuseSync,
       SyncStep, LockForSync, CopyChunk, CopyManifest, CopyKey, Fail, BackupHere, local
<1> QED
  BY PublicationInvariance, <1>1, PTL DEF Spec, LiveRowsKept

\* A new key is published where there is no archive and nothing of one.
THEOREM KeyAlone == Spec => NewKeyAlone
<1> DEFINE Alone == \/ key' \in Source
                    \/ key = None /\ manifest = None /\ rows = {}
<1>1. PublicationInv /\ [Next]_vars => [key' # key => Alone]_vars
  <2> SUFFICES ASSUME PublicationInv, Next, key' # key PROVE Alone
    BY DEF vars
  <2>1. ASSUME NEW p \in Initiator, PublishKey(p) PROVE Alone
    BY <2>1, SMT DEF PublicationInv, InitPrepared, PublishKey, InitLocked
  <2>2. ASSUME NEW s \in Source, CopyKey(s) PROVE Alone
    BY <2>2 DEF CopyKey
  <2> QED
    BY <2>1, <2>2, SMT DEF Next, InitStep, LockForInit, RefuseInit, StageKey, OpenState,
       ResetState, TruncateRecovery, WriteRecovery, BackupSource, RefuseSync, SyncStep,
       LockForSync, CopyChunk, CopyManifest, Fail, BackupHere, archive
<1> QED
  BY PublicationInvariance, <1>1, PTL DEF Spec, NewKeyAlone
=============================================================================
