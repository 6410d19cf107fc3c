---------------------------- MODULE ReadersProofs ----------------------------
(***************************************************************************)
(* Proofs about verify and restore, for any number of readers, backups,    *)
(* sources, chunks and damaged files, with and without power losses.       *)
(*                                                                         *)
(* The readers take no lock, so the argument cannot rest on who holds one. *)
(* It rests on what a reader has for itself: the copy of the manifest it   *)
(* works from and the snapshot it fills do not change under it, and a file *)
(* that was damaged when it began stays damaged.                           *)
(***************************************************************************)
EXTENDS Readers, ArchiveProofs

(* The inductive invariant *)

\* A restore that writes has verified all it works from.
Writing == {"create", "write", "report"}

\* The snapshot grows with the loop, one chunk for one entry.
SnapshotInv ==
    \A r \in Reader :
        /\ rpc[r] = "idle" => snapshot[r] = <<>>
        /\ rpc[r] = "verify" => /\ at[r] <= Len(view[r])
                                /\ r \in Restores => Len(snapshot[r]) = at[r]
        /\ rpc[r] \in Writing => r \in Restores /\ Len(snapshot[r]) = Len(view[r])

\* Only intact bytes are kept.
KeptIntact == \A r \in Reader : \A i \in DOMAIN snapshot[r] : snapshot[r][i]

\* Damage stays, so an entry that has been verified was not damaged before.
UndamagedInv ==
    \A r \in Reader :
        /\ damagedAt[r] \subseteq damaged
        /\ rpc[r] = "verify" =>
             \A i \in 1..at[r] : view[r][i].chunk \notin damagedAt[r]
        /\ rpc[r] \in Writing =>
             \A i \in DOMAIN view[r] : view[r][i].chunk \notin damagedAt[r]

RInv == ReadersTypeOK /\ SnapshotInv /\ KeptIntact /\ UndamagedInv /\ OnlyVerifiedWritten

-----------------------------------------------------------------------------
(* Steps *)

\* What a backup, the machine and the writers of session files do is a step of
\* Backup.
LEMMA ArchiveStepsAreBackupSteps ==
    ArchiveStep \/ MachineStops => [Next]_vars
BY DEF ArchiveStep, MachineStops, Next, Environment

\* No record is garbled: it has a source.
LEMMA GarbledIsNoRecord == Garbled \notin Record
BY NoneAssumption, SMT DEF Garbled, Record

\* Readers that have not begun have nothing that could be wrong.
LEMMA RInvInit == ReadersInit => RInv
<1> SUFFICES ASSUME ReadersInit PROVE RInv
  OBVIOUS
<1> USE DEF ReadersInit
<1>1. TypeOK
  BY TypeInit
<1>2. /\ damaged \subseteq ChunkId
      /\ shown \in [File -> Restores \cup {None}]
      /\ rpc \in [Reader -> Ended \cup {"idle", "verify", "create", "write", "report"}]
      /\ seenAt \in [Reader -> SUBSET Record]
      /\ damagedAt \in [Reader -> SUBSET ChunkId]
      /\ at \in [Reader -> Nat]
  BY Zenon
<1>3. view \in [Reader -> Seq(Line)] /\ snapshot \in [Reader -> Seq(BOOLEAN)]
  BY SMT
<1>4. outputs \in [Reader -> [Elems(Recorded) -> Seq(SUBSET (Record \cup {Garbled}))]]
  BY SMT DEF NoOutputs
<1>5. \A r \in Reader : \A f \in Elems(Recorded) : DOMAIN outputs[r][f] = {}
  BY SMT DEF NoOutputs
<1>6. SnapshotInv /\ KeptIntact /\ UndamagedInv
  BY SMT DEF SnapshotInv, KeptIntact, UndamagedInv, Writing
<1>7. OnlyVerifiedWritten
  BY <1>5, ReaderAssumption DEF OnlyVerifiedWritten
<1> QED
  BY <1>1, <1>2, <1>3, <1>4, <1>6, <1>7 DEF RInv, ReadersTypeOK

\* A reader that ends leaves nothing behind that the invariant is about.
LEMMA EndStep ==
    ASSUME RInv, TypeOK', NEW r \in Reader, NEW how \in Ended, End(r, how),
           UNCHANGED <<damaged, shown>>
    PROVE  RInv'
<1> USE DEF End, Enter
<1>1. /\ rpc' = [rpc EXCEPT ![r] = how] /\ at' = [at EXCEPT ![r] = 0]
      /\ view' = [view EXCEPT ![r] = <<>>] /\ snapshot' = [snapshot EXCEPT ![r] = <<>>]
      /\ outputs' = [outputs EXCEPT ![r] = NoOutputs]
      /\ seenAt' = [seenAt EXCEPT ![r] = {}] /\ damagedAt' = [damagedAt EXCEPT ![r] = {}]
      /\ damaged' = damaged /\ shown' = shown
  OBVIOUS
<1> USE DEF RInv, ReadersTypeOK
<1>2. rpc' \in [Reader -> Ended \cup {"idle", "verify", "create", "write", "report"}]
  BY <1>1, Zenon
<1>3. at' \in [Reader -> Nat] /\ view' \in [Reader -> Seq(Line)]
      /\ snapshot' \in [Reader -> Seq(BOOLEAN)]
  BY <1>1, SMT
<1>4. seenAt' \in [Reader -> SUBSET Record] /\ damagedAt' \in [Reader -> SUBSET ChunkId]
  BY <1>1, SMT
<1>5. NoOutputs \in [Elems(Recorded) -> Seq(SUBSET (Record \cup {Garbled}))]
  BY SMT DEF NoOutputs
<1>6. outputs' \in [Reader -> [Elems(Recorded) -> Seq(SUBSET (Record \cup {Garbled}))]]
  <2> DEFINE T == [Elems(Recorded) -> Seq(SUBSET (Record \cup {Garbled}))]
  <2>1. outputs \in [Reader -> T] /\ NoOutputs \in T
    BY <1>5
  <2> HIDE DEF T
  <2>2. outputs' \in [Reader -> T]
    BY <1>1, <2>1
  <2> QED
    BY <2>2 DEF T
<1>7. ReadersTypeOK'
  BY <1>1, <1>2, <1>3, <1>4, <1>6
<1>8. SnapshotInv'
  BY <1>1, SMT DEF SnapshotInv, Writing, Ended
<1>9. KeptIntact'
  BY <1>1, SMT DEF KeptIntact
<1>10. UndamagedInv'
  BY <1>1, SMT DEF UndamagedInv, Writing, Ended
<1>11. OnlyVerifiedWritten'
  BY <1>1, SMT DEF OnlyVerifiedWritten, NoOutputs
<1> QED
  BY <1>7, <1>8, <1>9, <1>10, <1>11

\* verify and restore change nothing that belongs to Backup.
LEMMA ReadersLeaveTypes == TypeOK /\ UNCHANGED vars => TypeOK'
BY TypeStep

\* Backup's steps change nothing that belongs to a reader.
LEMMA OthersStep ==
    ASSUME RInv, TypeOK', UNCHANGED <<shown, readerLocals>>,
           damaged \subseteq damaged', damaged' \subseteq ChunkId
    PROVE  RInv'
<1>1. UNCHANGED <<shown, rpc, view, at, snapshot, outputs, seenAt, damagedAt>>
  BY DEF readerLocals
<1>2. ReadersTypeOK'
  BY <1>1 DEF RInv, ReadersTypeOK
<1>3. SnapshotInv' /\ KeptIntact'
  BY <1>1 DEF RInv, SnapshotInv, KeptIntact
<1>4. UndamagedInv'
  BY <1>1 DEF RInv, UndamagedInv
<1>5. OnlyVerifiedWritten'
  BY <1>1 DEF RInv, OnlyVerifiedWritten
<1> QED
  BY <1>2, <1>3, <1>4, <1>5 DEF RInv

\* A verification step of a reader keeps the invariant.
LEMMA VerifyStepInv ==
    ASSUME RInv, NEW r \in Reader, VerifyStep(r)
    PROVE  RInv'
<1>0. TypeOK'
  BY ReadersLeaveTypes DEF RInv, ReadersTypeOK, VerifyStep, LoadManifest, VerifyEntry,
     RejectEntry, EndVerify
<1>1. CASE LoadManifest(r)
  <2> USE DEF RInv, ReadersTypeOK
  <2>1. /\ rpc' = [rpc EXCEPT ![r] = "verify"] /\ at' = [at EXCEPT ![r] = 0]
        /\ view' = [view EXCEPT ![r] = manifest]
        /\ seenAt' = [seenAt EXCEPT ![r] = seen]
        /\ damagedAt' = [damagedAt EXCEPT ![r] = damaged]
        /\ UNCHANGED <<damaged, shown, snapshot, outputs>>
    BY <1>1 DEF LoadManifest, Enter
  <2>2. snapshot[r] = <<>>
    BY <1>1 DEF LoadManifest, SnapshotInv
  <2>3. rpc' \in [Reader -> Ended \cup {"idle", "verify", "create", "write", "report"}]
    BY <2>1, Zenon
  <2>4. manifest \in Seq(Line) /\ seen \in SUBSET Record /\ damaged \in SUBSET ChunkId
    BY DEF TypeOK
  <2>5. at' \in [Reader -> Nat] /\ view' \in [Reader -> Seq(Line)]
        /\ seenAt' \in [Reader -> SUBSET Record] /\ damagedAt' \in [Reader -> SUBSET ChunkId]
    BY <2>1, <2>4, SMT
  <2>6. ReadersTypeOK'
    BY <1>0, <2>1, <2>3, <2>5
  <2>7. SnapshotInv'
    BY <2>1, <2>2, <2>4, SMT DEF SnapshotInv, Writing
  <2>8. KeptIntact' /\ OnlyVerifiedWritten'
    BY <2>1 DEF KeptIntact, OnlyVerifiedWritten
  <2>9. UndamagedInv'
    BY <2>1, SMT DEF UndamagedInv, Writing
  <2> QED
    BY <2>6, <2>7, <2>8, <2>9
<1>2. CASE VerifyEntry(r)
  <2> USE DEF RInv, ReadersTypeOK
  <2> DEFINE n == at[r] + 1
  <2>1. /\ rpc[r] = "verify" /\ n \in 1..Len(view[r])
        /\ view[r][n].chunk \in chunks \ damaged
        /\ at' = [at EXCEPT ![r] = @ + 1]
        /\ UNCHANGED <<rpc, damaged, shown, view, outputs, seenAt, damagedAt>>
    BY <1>2, SMT DEF VerifyEntry, HasEntry, Genuine, Intact, Again
  <2>2. snapshot' = IF r \in Restores THEN [snapshot EXCEPT ![r] = Append(@, TRUE)]
                                      ELSE snapshot
    <3>1. Intact(view[r][n].chunk) = TRUE
      BY <2>1 DEF Intact
    <3>2. snapshot' = [snapshot EXCEPT ![r] =
             IF r \in Restores THEN Append(@, TRUE) ELSE @]
      BY <1>2, <3>1 DEF VerifyEntry
    <3> QED
      BY <3>2
  <2> HIDE DEF n
  <2>3. at' \in [Reader -> Nat] /\ snapshot' \in [Reader -> Seq(BOOLEAN)]
    BY <2>1, <2>2, SMT
  <2>4. ReadersTypeOK'
    BY <1>0, <2>1, <2>3
  <2>5. SnapshotInv'
    <3>1. ASSUME r \in Restores PROVE Len(snapshot'[r]) = at'[r]
      BY <2>1, <2>2, <3>1, SMT DEF SnapshotInv
    <3>2. at'[r] <= Len(view'[r])
      BY <2>1, SMT DEF n
    <3>3. \A q \in Reader \ {r} : snapshot'[q] = snapshot[q] /\ at'[q] = at[q]
      BY <2>1, <2>2
    <3>4. rpc' = rpc /\ view' = view /\ rpc[r] = "verify"
      BY <2>1
    <3> QED
      BY <3>1, <3>2, <3>3, <3>4 DEF SnapshotInv, Writing
  <2>6. KeptIntact'
    BY <2>2, SMT DEF KeptIntact
  <2>7. UndamagedInv'
    BY <2>1, SMT DEF UndamagedInv, Writing, n
  <2>8. OnlyVerifiedWritten'
    BY <2>1 DEF OnlyVerifiedWritten
  <2> QED
    BY <2>4, <2>5, <2>6, <2>7, <2>8
<1>3. CASE RejectEntry(r)
  BY <1>0, <1>3, EndStep DEF RejectEntry, Ended
<1>4. CASE EndVerify(r)
  BY <1>0, <1>4, EndStep DEF EndVerify, Ended
<1> QED
  BY <1>1, <1>2, <1>3, <1>4 DEF VerifyStep

\* What a restore writes to a file are records it has.
LEMMA RoutedAreRecords ==
    ASSUME NEW f \in Elems(Recorded), NEW recs, recs \subseteq Record
    PROVE  Routed(f, recs) \subseteq Record
<1>1. f \in {"canonical", "codex-raw", "claude-raw"}
  BY SMT DEF Recorded, Elems
<1>2. CASE f = "canonical"
  BY <1>2 DEF Routed
<1>3. CASE f = "codex-raw"
  BY <1>3 DEF Routed
<1>4. CASE f = "claude-raw"
  BY <1>4 DEF Routed
<1> QED
  BY <1>1, <1>2, <1>3, <1>4

\* A step of a restore that has verified its chunks keeps the invariant.
LEMMA RestoreStepInv ==
    ASSUME RInv, NEW r \in Reader, RestoreStep(r)
    PROVE  RInv'
<1>0. TypeOK'
  BY ReadersLeaveTypes DEF RInv, ReadersTypeOK, RestoreStep, BeginOutputs, CreateOutput,
     WriteChunk, FlushOutputs, CreateReport, WriteReport
<1>1. ASSUME NEW label \in {"create", "write", "report"},
             (rpc[r] = "verify" /\ at[r] = Len(view[r])) \/ rpc[r] \in Writing,
             rpc' = [rpc EXCEPT ![r] = label], at' \in [Reader -> Nat], r \in Restores,
             \A q \in Reader \ {r} : at'[q] = at[q],
             shown' \in [File -> Restores \cup {None}],
             UNCHANGED <<damaged, view, snapshot, outputs, seenAt, damagedAt>>
      PROVE  RInv'
  <2> USE DEF RInv, ReadersTypeOK
  <2>1. rpc' \in [Reader -> Ended \cup {"idle", "verify", "create", "write", "report"}]
    BY <1>1, Zenon
  <2>2. ReadersTypeOK'
    BY <1>0, <1>1, <2>1
  <2>3. SnapshotInv'
    BY <1>1, SMT DEF SnapshotInv, Writing
  <2>4. KeptIntact' /\ OnlyVerifiedWritten'
    BY <1>1 DEF KeptIntact, OnlyVerifiedWritten
  <2>5. UndamagedInv'
    BY <1>1, SMT DEF UndamagedInv, Writing
  <2> QED
    BY <2>2, <2>3, <2>4, <2>5
<1>2. at \in [Reader -> Nat] /\ shown \in [File -> Restores \cup {None}]
      /\ rpc \in [Reader -> Ended \cup {"idle", "verify", "create", "write", "report"}]
  BY DEF RInv, ReadersTypeOK
<1>3. rpc[r] \in Writing => r \in Restores
  BY DEF RInv, SnapshotInv
<1>4. CASE BeginOutputs(r)
  BY <1>1, <1>2, <1>4 DEF BeginOutputs, Verified, Enter
<1>5. CASE CreateOutput(r)
  <2>1. /\ rpc[r] = "create" /\ r \in Restores
        /\ shown' \in [File -> Restores \cup {None}]
        /\ UNCHANGED <<damaged, view, snapshot, outputs, seenAt, damagedAt>>
    BY <1>2, <1>3, <1>5 DEF CreateOutput, Writing
  <2>2. CASE Again(r)
    <3>1. rpc' = [rpc EXCEPT ![r] = "create"]
      BY <1>2, <2>1, <2>2 DEF Again
    <3> QED
      BY <1>1, <1>2, <2>1, <2>2, <3>1, SMT DEF Again, Writing
  <2>3. CASE Enter(r, "write")
    BY <1>1, <1>2, <2>1, <2>3, SMT DEF Enter, Writing
  <2> QED
    BY <1>5, <2>2, <2>3 DEF CreateOutput
<1>6. CASE WriteChunk(r)
  <2> DEFINE n == at[r] + 1
             kept == RecordsKept(r, n)
  <2> USE DEF RInv, ReadersTypeOK
  <2>1. /\ rpc[r] = "write" /\ n \in DOMAIN snapshot[r] /\ n \in DOMAIN view[r]
    BY <1>6, SMT DEF WriteChunk, SnapshotInv, Writing
  <2>2. kept \subseteq Record
    <3>1. snapshot[r][n]
      BY <2>1 DEF KeptIntact
    <3>2. view[r][n].recs \subseteq Record
      <4>1. view[r] \in Seq(Line)
        OBVIOUS
      <4>2. view[r][n] \in Line
        BY <2>1, <4>1
      <4> QED
        BY <4>2 DEF Line
    <3> QED
      BY <3>1, <3>2 DEF RecordsKept, Kept
  <2>3. /\ outputs' = [outputs EXCEPT ![r] =
               [f \in Elems(Recorded) |-> Append(outputs[r][f], Routed(f, kept))]]
        /\ UNCHANGED <<rpc, damaged, shown, view, snapshot, seenAt, damagedAt>>
        /\ at' \in [Reader -> Nat] /\ \A q \in Reader \ {r} : at'[q] = at[q]
    BY <1>6, SMT DEF WriteChunk, Again
  <2> HIDE DEF n, kept
  <2>4. \A f \in Elems(Recorded) : Routed(f, kept) \subseteq Record
    BY <2>2, RoutedAreRecords
  <2> DEFINE grown == [f \in Elems(Recorded) |-> Append(outputs[r][f], Routed(f, kept))]
  <2>5. grown \in [Elems(Recorded) -> Seq(SUBSET (Record \cup {Garbled}))]
    <3>1. \A f \in Elems(Recorded) :
            /\ outputs[r][f] \in Seq(SUBSET (Record \cup {Garbled}))
            /\ Routed(f, kept) \in SUBSET (Record \cup {Garbled})
      BY <2>4
    <3>2. \A f \in Elems(Recorded) :
            Append(outputs[r][f], Routed(f, kept)) \in Seq(SUBSET (Record \cup {Garbled}))
      BY <3>1
    <3> QED
      BY <3>2
  <2>6. ASSUME NEW f \in Elems(Recorded), NEW i \in DOMAIN grown[f]
        PROVE  \/ grown[f][i] = Routed(f, kept)
               \/ i \in DOMAIN outputs[r][f] /\ grown[f][i] = outputs[r][f][i]
    <3>1. outputs[r][f] \in Seq(SUBSET (Record \cup {Garbled}))
      OBVIOUS
    <3>2. grown[f] = Append(outputs[r][f], Routed(f, kept))
      OBVIOUS
    <3> HIDE DEF grown, RInv, ReadersTypeOK
    <3> QED
      BY <3>1, <3>2, SMT
  <2> HIDE DEF grown
  <2>7. outputs' = [outputs EXCEPT ![r] = grown]
    BY <2>3 DEF grown
  <2>8. ReadersTypeOK'
    BY <1>0, <2>3, <2>5, <2>7
  <2>9. SnapshotInv' /\ KeptIntact' /\ UndamagedInv'
    <3>1. /\ UNCHANGED <<rpc, view, snapshot, damaged, damagedAt>> /\ rpc[r] # "verify"
          /\ \A q \in Reader \ {r} : at'[q] = at[q]
      BY <2>1, <2>3
    <3>2. SnapshotInv
      OBVIOUS
    <3>3. KeptIntact
      OBVIOUS
    <3>4. UndamagedInv
      OBVIOUS
    <3> HIDE DEF RInv, ReadersTypeOK
    <3>5. SnapshotInv'
      BY <3>1, <3>2 DEF SnapshotInv
    <3>6. KeptIntact'
      BY <3>1, <3>3 DEF KeptIntact
    <3>7. UndamagedInv'
      BY <3>1, <3>4 DEF UndamagedInv
    <3> QED
      BY <3>5, <3>6, <3>7
  <2>10. OnlyVerifiedWritten'
    <3> SUFFICES ASSUME NEW q \in Restores, NEW f \in Elems(Recorded),
                        NEW i \in DOMAIN outputs'[q][f]
                 PROVE  Garbled \notin outputs'[q][f][i]
      BY DEF OnlyVerifiedWritten
    <3>1. q \in Reader
      BY ReaderAssumption
    <3>2. CASE q # r
      <4>1. outputs'[q] = outputs[q]
        BY <2>7, <3>1, <3>2
      <4> QED
        BY <4>1 DEF OnlyVerifiedWritten
    <3>3. CASE q = r
      <4>1. outputs'[q] = grown
        BY <2>7, <3>3
      <4>2. \/ outputs'[q][f][i] = Routed(f, kept)
            \/ i \in DOMAIN outputs[q][f] /\ outputs'[q][f][i] = outputs[q][f][i]
        BY <2>6, <3>3, <4>1
      <4> QED
        BY <2>4, <4>2, GarbledIsNoRecord DEF OnlyVerifiedWritten
    <3> QED
      BY <3>2, <3>3
  <2> QED
    BY <2>8, <2>9, <2>10
<1>7. CASE FlushOutputs(r)
  BY <1>1, <1>2, <1>3, <1>7 DEF FlushOutputs, Enter, Writing
<1>8. CASE CreateReport(r)
  <2>1. /\ rpc[r] = "report" /\ r \in Restores
        /\ rpc' = [rpc EXCEPT ![r] = "report"]
        /\ shown' \in [File -> Restores \cup {None}]
    BY <1>2, <1>3, <1>8 DEF CreateReport, Again, Writing
  <2> QED
    BY <1>1, <1>2, <1>8, <2>1, SMT DEF CreateReport, Again, Writing
<1>9. CASE WriteReport(r)
  BY <1>0, <1>9, EndStep DEF WriteReport, Ended
<1> QED
  BY <1>4, <1>5, <1>6, <1>7, <1>8, <1>9 DEF RestoreStep

\* The machine stops: the readers die with it, and leave nothing.
LEMMA MachineStopsInv == RInv /\ MachineStops => RInv'
<1> SUFFICES ASSUME RInv, MachineStops PROVE RInv'
  OBVIOUS
<1>1. TypeOK'
  BY TypeStep, ArchiveStepsAreBackupSteps DEF RInv, ReadersTypeOK
<1>2. /\ shown' = [f \in File |-> None]
      /\ rpc' = [r \in Reader |-> IF rpc[r] \in Ended \cup {"idle"} THEN rpc[r] ELSE "failed"]
      /\ view' = [r \in Reader |-> <<>>] /\ at' = [r \in Reader |-> 0]
      /\ snapshot' = [r \in Reader |-> <<>>] /\ outputs' = [r \in Reader |-> NoOutputs]
      /\ seenAt' = [r \in Reader |-> {}] /\ damagedAt' = [r \in Reader |-> {}]
      /\ damaged' = damaged
  BY DEF MachineStops
<1>3. \A r \in Reader : rpc'[r] \in Ended \cup {"idle"}
  BY <1>2, Zenon DEF Ended
<1>4. rpc' \in [Reader -> Ended \cup {"idle", "verify", "create", "write", "report"}]
  BY <1>2, <1>3, Zenon
<1>5. NoOutputs \in [Elems(Recorded) -> Seq(SUBSET (Record \cup {Garbled}))]
  BY SMT DEF NoOutputs
<1>6. ReadersTypeOK'
  BY <1>1, <1>2, <1>4, <1>5, SMT DEF RInv, ReadersTypeOK
<1>7. SnapshotInv' /\ KeptIntact' /\ UndamagedInv'
  BY <1>2, <1>3, SMT DEF SnapshotInv, KeptIntact, UndamagedInv, Writing, Ended
<1>8. OnlyVerifiedWritten'
  BY <1>2, ReaderAssumption, SMT DEF OnlyVerifiedWritten, NoOutputs
<1> QED
  BY <1>6, <1>7, <1>8 DEF RInv

\* Every step keeps the invariant.
LEMMA RInvStep == RInv /\ [ReadersNext]_allVars => RInv'
<1> SUFFICES ASSUME RInv, [ReadersNext]_allVars PROVE RInv'
  OBVIOUS
<1>1. CASE ArchiveStep
  <2>1. TypeOK'
    BY <1>1, TypeStep, ArchiveStepsAreBackupSteps DEF RInv, ReadersTypeOK
  <2>2. UNCHANGED <<damaged, shown, readerLocals>>
    BY <1>1 DEF ArchiveStep
  <2> QED
    BY <2>1, <2>2, OthersStep DEF RInv, ReadersTypeOK
<1>2. CASE MachineStops
  BY <1>2, MachineStopsInv
<1>3. ASSUME NEW c \in chunks, DamageChunk(c) PROVE RInv'
  <2>1. TypeOK'
    BY <1>3, ReadersLeaveTypes DEF DamageChunk, RInv, ReadersTypeOK
  <2>2. damaged' = damaged \cup {c} /\ c \in ChunkId /\ damaged \subseteq ChunkId
    BY <1>3 DEF DamageChunk, RInv, ReadersTypeOK, TypeOK
  <2>3. UNCHANGED <<shown, readerLocals>>
    BY <1>3 DEF DamageChunk
  <2> QED
    BY <2>1, <2>2, <2>3, OthersStep
<1>4. ASSUME NEW r \in Reader, VerifyStep(r) PROVE RInv'
  BY <1>4, VerifyStepInv
<1>5. ASSUME NEW r \in Reader, RestoreStep(r) PROVE RInv'
  BY <1>5, RestoreStepInv
<1>6. ASSUME NEW r \in Reader, FailReader(r) PROVE RInv'
  <2>1. TypeOK'
    BY <1>6, ReadersLeaveTypes DEF FailReader, RInv, ReadersTypeOK
  <2> QED
    BY <1>6, <2>1, EndStep DEF FailReader, Ended
<1>7. CASE UNCHANGED allVars
  <2>1. TypeOK'
    BY <1>7, ReadersLeaveTypes DEF allVars, RInv, ReadersTypeOK
  <2> QED
    BY <1>7, <2>1, OthersStep DEF allVars, RInv, ReadersTypeOK
<1> QED
  BY <1>1, <1>2, <1>3, <1>4, <1>5, <1>6, <1>7 DEF ReadersNext

-----------------------------------------------------------------------------
(* Theorems *)

\* RInv is an invariant of verify and restore beside running backups.
THEOREM ReadersInvariance == ReadersSpec => []RInv
BY RInvInit, RInvStep, PTL DEF ReadersSpec

\* The variables keep their types beside those of Backup.
THEOREM ReadersTypeCorrect == ReadersSpec => []ReadersTypeOK
<1>1. RInv => ReadersTypeOK
  BY DEF RInv
<1> QED
  BY ReadersInvariance, <1>1, PTL

\* A restore writes nothing but records of chunks it has verified, whatever
\* backups, recovery and damage do to the chunk files meanwhile.
THEOREM RestoresVerifiedBytes == ReadersSpec => []OnlyVerifiedWritten
<1>1. RInv => OnlyVerifiedWritten
  BY DEF RInv
<1> QED
  BY ReadersInvariance, <1>1, PTL

\* The chunks of a reader's entries, when all are verified.
LEMMA VerifiedChunksUndamaged ==
    ASSUME RInv, NEW r \in Reader, Verified(r) \/ rpc[r] \in Writing
    PROVE  ChunksOf(view[r]) \cap damagedAt[r] = {}
<1>1. view[r] \in Seq(Line)
  BY DEF RInv, ReadersTypeOK
<1>2. \A i \in DOMAIN view[r] : view[r][i].chunk \notin damagedAt[r]
  BY <1>1, SMT DEF RInv, UndamagedInv, Verified
<1> QED
  BY <1>2 DEF ChunksOf, Elems

\* verify and restore do not end well over a chunk that was damaged when they
\* began to read.
THEOREM DamageIsDetected == ReadersSpec => DamageDetected
<1>1. RInv /\ [ReadersNext]_allVars =>
        [\A r \in Reader : rpc[r] # "done" /\ rpc'[r] = "done" =>
           ChunksOf(view[r]) \cap damagedAt[r] = {}]_allVars
  <2> SUFFICES ASSUME RInv, ReadersNext, NEW r \in Reader,
                      rpc[r] # "done", rpc'[r] = "done"
               PROVE  ChunksOf(view[r]) \cap damagedAt[r] = {}
    OBVIOUS
  <2>1. rpc \in [Reader -> Ended \cup {"idle", "verify", "create", "write", "report"}]
    BY DEF RInv, ReadersTypeOK
  <2>2. rpc' # rpc
    OBVIOUS
  <2>3. CASE MachineStops
    BY <2>1, <2>3, Zenon DEF MachineStops
  <2>4. ASSUME NEW q \in Reader, VerifyStep(q)
        PROVE  Verified(r)
    BY <2>1, <2>2, <2>4 DEF VerifyStep, LoadManifest, VerifyEntry, RejectEntry, EndVerify, Enter, Again,
       End
  <2>5. ASSUME NEW q \in Reader, RestoreStep(q)
        PROVE  rpc[r] \in Writing
    BY <2>1, <2>2, <2>5 DEF RestoreStep, BeginOutputs, CreateOutput, WriteChunk,
       FlushOutputs, CreateReport, WriteReport, Enter, Again, End, Writing
  <2>6. ASSUME NEW q \in Reader, FailReader(q) PROVE FALSE
    BY <2>1, <2>6 DEF FailReader, End, Enter
  <2>7. ~ ArchiveStep /\ \A c \in chunks : ~ DamageChunk(c)
    BY <2>2 DEF ArchiveStep, DamageChunk, readerLocals
  <2> QED
    BY <2>3, <2>4, <2>5, <2>6, <2>7, VerifiedChunksUndamaged DEF ReadersNext
<1> QED
  BY ReadersInvariance, <1>1, PTL DEF ReadersSpec, DamageDetected

\* The outputs of an earlier restore give way only to one that has verified all
\* it is going to write, in no chunk that was damaged when it began.
THEOREM FormerOutputsAreKept == ReadersSpec => FormerOutputsKept
<1>1. RInv /\ [ReadersNext]_allVars =>
        [\A f \in File : shown'[f] # shown[f] /\ shown'[f] # None =>
           LET r == shown'[f]
           IN  Len(snapshot[r]) = Len(view[r]) /\ ChunksOf(view[r]) \cap damagedAt[r] = {}]_allVars
  <2> SUFFICES ASSUME RInv, ReadersNext, NEW f \in File,
                      shown'[f] # shown[f], shown'[f] # None
               PROVE  LET r == shown'[f]
                      IN  /\ Len(snapshot[r]) = Len(view[r])
                          /\ ChunksOf(view[r]) \cap damagedAt[r] = {}
    OBVIOUS
  <2>1. shown \in [File -> Restores \cup {None}] /\ shown' # shown
    BY DEF RInv, ReadersTypeOK
  <2>2. ~ MachineStops
    BY DEF MachineStops
  <2>3. ASSUME NEW q \in Reader PROVE ~ VerifyStep(q) /\ ~ FailReader(q)
    BY <2>1 DEF VerifyStep, LoadManifest, VerifyEntry, RejectEntry, EndVerify, FailReader
  <2>4. ~ ArchiveStep /\ \A c \in chunks : ~ DamageChunk(c)
    BY <2>1 DEF ArchiveStep, DamageChunk
  <2>5. PICK q \in Reader : RestoreStep(q)
    BY <2>2, <2>3, <2>4 DEF ReadersNext
  <2>6. shown'[f] = q /\ rpc[q] \in Writing
    BY <2>1, <2>5 DEF RestoreStep, BeginOutputs, CreateOutput, WriteChunk, FlushOutputs,
       CreateReport, WriteReport, Writing
  <2> QED
    BY <2>6, VerifiedChunksUndamaged DEF RInv, SnapshotInv
<1> QED
  BY ReadersInvariance, <1>1, PTL DEF ReadersSpec, FormerOutputsKept

-----------------------------------------------------------------------------
(* What a reader works from, and what a restore has written of it *)

\* A reader's entries are a sound manifest, whose lines the archive still has,
\* and they hold what a backup would have skipped when they were read.
ViewInv ==
    \A r \in Reader :
        /\ ChainedTo(view[r], Genesis) /\ OwnBatches(view[r])
        /\ Elems(view[r]) \subseteq Elems(manifest)
        /\ seenAt[r] \subseteq RecsOf(view[r])

\* The first n batches of a restore's entries are in its files.
Written(r, n) ==
    \A f \in Elems(Recorded) :
        /\ Len(outputs[r][f]) = n
        /\ \A i \in 1..n : outputs[r][f][i] = Routed(f, view[r][i].recs)

\* A restore writes one batch after the other, and reports when it has all.
WrittenInv ==
    \A r \in Reader :
        /\ rpc[r] \in {"idle", "verify", "create"} => outputs[r] = NoOutputs
        /\ rpc[r] = "write" => at[r] <= Len(snapshot[r]) /\ Written(r, at[r])
        /\ rpc[r] = "report" => Written(r, Len(view[r]))

\* The archive does not notice its readers: with verifications and restores that
\* run, fail and end at any moment beside it, and with files that are damaged,
\* it behaves as the backup command alone does.
THEOREM ReadersImplementBackup == ReadersSpec => Spec
<1>1. [ReadersNext]_allVars => [Next]_vars
  <2> SUFFICES ASSUME [ReadersNext]_allVars PROVE [Next]_vars
    OBVIOUS
  <2>1. ASSUME UNCHANGED vars PROVE [Next]_vars
    BY <2>1
  <2>2. CASE UNCHANGED allVars
    BY <2>1, <2>2 DEF allVars
  <2>3. ASSUME NEW r \in Reader, VerifyStep(r) \/ RestoreStep(r) \/ FailReader(r)
        PROVE  UNCHANGED vars
    BY <2>3 DEF VerifyStep, RestoreStep, FailReader, LoadManifest, VerifyEntry, RejectEntry,
       EndVerify, BeginOutputs, CreateOutput, WriteChunk, FlushOutputs, CreateReport,
       WriteReport
  <2>4. ASSUME NEW c, DamageChunk(c) PROVE UNCHANGED vars
    BY <2>4 DEF DamageChunk
  <2> QED
    BY <2>1, <2>2, <2>3, <2>4, ArchiveStepsAreBackupSteps DEF ReadersNext
<1>2. ReadersInit => Init
  BY DEF ReadersInit
<1> QED
  BY <1>1, <1>2, PTL DEF ReadersSpec, Spec

\* So beside readers too the durable manifest is the append-only ledger.
THEOREM LedgerBesideReaders == ReadersSpec => ImplementsLedger
BY ReadersImplementBackup, Refinement, PTL

\* And the invariant of the archive holds.
LEMMA ReadersKeepArchive == ReadersSpec => []ArchiveInv
BY ReadersImplementBackup, ArchiveInvariance, PTL

\* While the machine has power the manifest loses no line.
LEMMA ManifestGrows ==
    ASSUME TypeOK, ArchiveStep
    PROVE  Elems(manifest) \subseteq Elems(manifest')
<1>1. CASE UNCHANGED manifest
  BY <1>1
<1>2. ASSUME NEW p \in Proc, ReplaceManifest(p) PROVE Elems(manifest) \subseteq Elems(manifest')
  <2>1. /\ manifest' = manifest \o lines[p]
        /\ manifest \in Seq(Line) /\ lines[p] \in Seq(Line)
    BY <1>2 DEF ReplaceManifest, AppendedManifest, TypeOK
  <2> QED
    BY <2>1, ElemsConcat
<1>3. ASSUME NEW p \in Proc, Scan(p) PROVE UNCHANGED manifest
  BY <1>3 DEF Scan, StatSource, OpenSource, StageRecord, SkipRecord, CloseSource, FinishScan,
     diskVars
<1>4. ASSUME NEW p \in Proc, LockArchive(p) \/ Recover(p) \/ Abort(p) PROVE UNCHANGED manifest
  BY <1>4 DEF LockArchive, Recover, RecoverDiscardChunk, RecoverDiscardRows, RecoverSync,
     RecoverMissingChunk, BeginBackup, RecoverCommit, SyncFiles, Abort, diskVars
<1>5. ASSUME NEW p \in Proc, Publish(p) PROVE ReplaceManifest(p) \/ UNCHANGED manifest
  BY <1>5 DEF Publish, CommitCheckpoints, DropOperation, StageCheckpoints, StageLines,
     PromoteChunk, SyncMetadata, CommitPending, Return, SyncFiles, diskVars
<1>6. ASSUME NEW s, NEW t, AppendLine(s, t) PROVE UNCHANGED manifest
  BY <1>6 DEF AppendLine, diskVars
<1> QED
  BY <1>1, <1>2, <1>3, <1>4, <1>5, <1>6 DEF ArchiveStep, Step

\* Nothing is wrong with no entries.
LEMMA EmptyView == ChainedTo(<<>>, Genesis) /\ OwnBatches(<<>>) /\ Elems(<<>>) = {}
BY SMT DEF ChainedTo, OwnBatches, Elems

\* They have no view, and have written nothing.
LEMMA ViewInit == ReadersInit => ViewInv /\ WrittenInv
<1> SUFFICES ASSUME ReadersInit PROVE ViewInv /\ WrittenInv
  OBVIOUS
<1>1. \A r \in Reader : /\ view[r] = <<>> /\ seenAt[r] = {} /\ rpc[r] = "idle"
                        /\ outputs[r] = NoOutputs
  BY DEF ReadersInit
<1>2. ViewInv
  BY <1>1, EmptyView DEF ViewInv
<1>3. WrittenInv
  BY <1>1 DEF WrittenInv
<1> QED
  BY <1>2, <1>3

\* The entries of a reader are read once, from a sound manifest, and then stay.
LEMMA ViewStep ==
    ASSUME ArchiveInv, ReadersTypeOK, ViewInv, [ReadersNext]_allVars
    PROVE  ViewInv'
<1>0. TypeOK /\ view \in [Reader -> Seq(Line)] /\ seenAt \in [Reader -> SUBSET Record]
  BY DEF ReadersTypeOK
<1>1. ASSUME UNCHANGED <<view, seenAt>>, Elems(manifest) \subseteq Elems(manifest')
      PROVE  ViewInv'
  BY <1>1 DEF ViewInv
<1>2. ASSUME NEW r \in Reader, NEW how, End(r, how), UNCHANGED vars PROVE ViewInv'
  <2>1. /\ view'[r] = <<>> /\ seenAt'[r] = {} /\ UNCHANGED manifest
        /\ \A q \in Reader \ {r} : view'[q] = view[q] /\ seenAt'[q] = seenAt[q]
    BY <1>0, <1>2 DEF End, vars, diskVars
  <2> QED
    BY <2>1, EmptyView DEF ViewInv
<1>3. CASE ArchiveStep
  BY <1>0, <1>1, <1>3, ManifestGrows DEF ArchiveStep, readerLocals
<1>4. CASE MachineStops
  <2>1. \A r \in Reader : view'[r] = <<>> /\ seenAt'[r] = {}
    BY <1>4 DEF MachineStops
  <2> QED
    BY <2>1, EmptyView DEF ViewInv
<1>5. ASSUME NEW c, DamageChunk(c) PROVE ViewInv'
  BY <1>1, <1>5 DEF DamageChunk, readerLocals, vars, diskVars
<1>6. ASSUME NEW r \in Reader, LoadManifest(r) PROVE ViewInv'
  <2>1. /\ view'[r] = manifest /\ seenAt'[r] = seen /\ UNCHANGED manifest
        /\ \A q \in Reader \ {r} : view'[q] = view[q] /\ seenAt'[q] = seenAt[q]
    BY <1>0, <1>6 DEF LoadManifest, vars, diskVars
  <2>2. ChainedTo(manifest, Genesis) /\ OwnBatches(manifest) /\ SeenRecoverable
    BY DEF ArchiveInv, IInv, ManifestsSound
  <2>3. seen \subseteq RecsOf(manifest)
    BY <2>2 DEF SeenRecoverable, RecsOf
  <2> QED
    BY <2>1, <2>2, <2>3 DEF ViewInv
<1>7. ASSUME NEW r \in Reader, VerifyEntry(r) \/ BeginOutputs(r) \/ CreateOutput(r)
               \/ WriteChunk(r) \/ FlushOutputs(r) \/ CreateReport(r)
      PROVE  ViewInv'
  BY <1>1, <1>7 DEF VerifyEntry, BeginOutputs, CreateOutput, WriteChunk, FlushOutputs,
     CreateReport, vars, diskVars
<1>8. ASSUME NEW r \in Reader, RejectEntry(r) \/ EndVerify(r) \/ WriteReport(r) \/ FailReader(r)
      PROVE  ViewInv'
  BY <1>2, <1>8 DEF RejectEntry, EndVerify, WriteReport, FailReader
<1>9. CASE UNCHANGED allVars
  BY <1>1, <1>9 DEF allVars, readerLocals, vars, diskVars
<1> QED
  BY <1>3, <1>4, <1>5, <1>6, <1>7, <1>8, <1>9 DEF ReadersNext, VerifyStep, RestoreStep

\* A batch goes to the files whole: the bytes kept of it were verified.
LEMMA WriteChunkStep ==
    ASSUME RInv, WrittenInv, NEW r \in Reader, WriteChunk(r)
    PROVE  WrittenInv'
<1> DEFINE n == at[r] + 1
<1>1. /\ rpc[r] = "write" /\ at[r] < Len(snapshot[r])
      /\ outputs' = [outputs EXCEPT ![r] =
           [f \in Elems(Recorded) |-> Append(@[f], Routed(f, RecordsKept(r, n)))]]
      /\ at' = [at EXCEPT ![r] = @ + 1]
      /\ UNCHANGED <<rpc, view, snapshot>>
  BY DEF WriteChunk, Again
<1>2. /\ outputs \in [Reader -> [Elems(Recorded) -> Seq(SUBSET (Record \cup {Garbled}))]]
      /\ at \in [Reader -> Nat] /\ snapshot \in [Reader -> Seq(BOOLEAN)]
  BY DEF RInv, ReadersTypeOK
<1>3. n \in DOMAIN snapshot[r] /\ n \in Nat /\ n <= Len(snapshot[r])
  BY <1>1, <1>2, SMT
<1>4. RecordsKept(r, n) = view[r][n].recs
  BY <1>3 DEF RInv, KeptIntact, RecordsKept, Kept
<1>5. /\ at'[r] = n
      /\ outputs'[r] = [f \in Elems(Recorded) |-> Append(outputs[r][f], Routed(f, view[r][n].recs))]
      /\ \A q \in Reader \ {r} : at'[q] = at[q] /\ outputs'[q] = outputs[q]
  BY <1>1, <1>2, <1>4
<1>6. Written(r, at[r])
  BY <1>1 DEF WrittenInv
<1>7. ASSUME NEW f \in Elems(Recorded)
      PROVE  /\ Len(outputs'[r][f]) = n
             /\ \A i \in 1..n : outputs'[r][f][i] = Routed(f, view'[r][i].recs)
  <2> DEFINE a == outputs[r][f]
             x == Routed(f, view[r][n].recs)
  <2>1. /\ a \in Seq(SUBSET (Record \cup {Garbled})) /\ Len(a) = at[r] /\ at[r] \in Nat
        /\ \A i \in 1..at[r] : a[i] = Routed(f, view[r][i].recs)
    BY <1>2, <1>6 DEF Written
  <2>2. outputs'[r][f] = Append(a, x)
    BY <1>5
  <2> HIDE DEF a
  <2> DEFINE y == x
  <2> HIDE DEF y
  <2>3. Len(Append(a, y)) = n /\ Append(a, y)[n] = y
        /\ \A i \in 1..at[r] : Append(a, y)[i] = a[i]
    BY <2>1, SMT
  <2>4. \A i \in 1..n : i \in 1..at[r] \/ i = n
    BY <2>1, SMT
  <2> QED
    BY <1>1, <2>1, <2>2, <2>3, <2>4 DEF y
<1>8. Written(r, at[r])'
  BY <1>1, <1>5, <1>7 DEF Written
<1>9. ASSUME NEW q \in Reader
      PROVE  /\ rpc'[q] \in {"idle", "verify", "create"} => outputs'[q] = NoOutputs
             /\ rpc'[q] = "write" => at'[q] <= Len(snapshot'[q]) /\ Written(q, at[q])'
             /\ rpc'[q] = "report" => Written(q, Len(view[q]))'
  <2>1. CASE q = r
    BY <1>1, <1>3, <1>5, <1>8, <2>1
  <2>2. CASE q # r
    BY <1>1, <1>5, <2>2 DEF WrittenInv, Written
  <2> QED
    BY <2>1, <2>2
<1> QED
  BY <1>9 DEF WrittenInv

\* The other steps write nothing, or remove what was written.
LEMMA WrittenStep ==
    ASSUME RInv, WrittenInv, [ReadersNext]_allVars
    PROVE  WrittenInv'
<1>0. /\ rpc \in [Reader -> Ended \cup {"idle", "verify", "create", "write", "report"}]
      /\ outputs \in [Reader -> [Elems(Recorded) -> Seq(SUBSET (Record \cup {Garbled}))]]
      /\ at \in [Reader -> Nat] /\ view \in [Reader -> Seq(Line)]
      /\ snapshot \in [Reader -> Seq(BOOLEAN)]
  BY DEF RInv, ReadersTypeOK
<1>1. ASSUME UNCHANGED readerLocals PROVE WrittenInv'
  BY <1>1 DEF readerLocals, WrittenInv, Written
<1>2. ASSUME NEW r \in Reader,
             \A q \in Reader \ {r} :
                /\ rpc'[q] = rpc[q] /\ at'[q] = at[q] /\ view'[q] = view[q]
                /\ snapshot'[q] = snapshot[q] /\ outputs'[q] = outputs[q],
             rpc'[r] \in {"idle", "verify", "create"} => outputs'[r] = NoOutputs,
             rpc'[r] = "write" => at'[r] <= Len(snapshot'[r]) /\ Written(r, at[r])',
             rpc'[r] = "report" => Written(r, Len(view[r]))'
      PROVE  WrittenInv'
  <2>1. ASSUME NEW q \in Reader \ {r}
        PROVE  /\ rpc'[q] \in {"idle", "verify", "create"} => outputs'[q] = NoOutputs
               /\ rpc'[q] = "write" => at'[q] <= Len(snapshot'[q]) /\ Written(q, at[q])'
               /\ rpc'[q] = "report" => Written(q, Len(view[q]))'
    BY <1>2, <2>1 DEF WrittenInv, Written
  <2> QED
    BY <1>2, <2>1 DEF WrittenInv
<1>3. ASSUME NEW r \in Reader, NEW how \in Ended, End(r, how) PROVE WrittenInv'
  <2>1. /\ rpc'[r] \in Ended
        /\ \A q \in Reader \ {r} :
             /\ rpc'[q] = rpc[q] /\ at'[q] = at[q] /\ view'[q] = view[q]
             /\ snapshot'[q] = snapshot[q] /\ outputs'[q] = outputs[q]
    BY <1>0, <1>3 DEF End, Enter
  <2> QED
    BY <1>2, <2>1 DEF Ended
<1>4. CASE ArchiveStep
  BY <1>1, <1>4 DEF ArchiveStep
<1>5. CASE MachineStops
  <2>1. \A r \in Reader : rpc'[r] \in Ended \cup {"idle"} /\ outputs'[r] = NoOutputs
    BY <1>5 DEF MachineStops, Ended
  <2> QED
    BY <2>1 DEF WrittenInv, Ended
<1>6. ASSUME NEW c, DamageChunk(c) PROVE WrittenInv'
  BY <1>1, <1>6 DEF DamageChunk
<1>7. ASSUME NEW r \in Reader, LoadManifest(r) PROVE WrittenInv'
  <2>1. /\ rpc[r] = "idle" /\ rpc'[r] = "verify" /\ outputs' = outputs /\ snapshot' = snapshot
        /\ \A q \in Reader \ {r} : rpc'[q] = rpc[q] /\ at'[q] = at[q] /\ view'[q] = view[q]
    BY <1>0, <1>7 DEF LoadManifest, Enter
  <2> QED
    BY <1>2, <2>1 DEF WrittenInv
<1>8. ASSUME NEW r \in Reader, VerifyEntry(r) PROVE WrittenInv'
  <2>1. /\ rpc[r] = "verify" /\ UNCHANGED <<rpc, outputs, view>>
        /\ \A q \in Reader \ {r} : at'[q] = at[q] /\ snapshot'[q] = snapshot[q]
    BY <1>0, <1>8 DEF VerifyEntry, HasEntry, Again
  <2> QED
    BY <1>2, <2>1 DEF WrittenInv
<1>9. ASSUME NEW r \in Reader, BeginOutputs(r) PROVE WrittenInv'
  <2>1. /\ rpc[r] = "verify" /\ rpc'[r] = "create" /\ UNCHANGED <<outputs, view, snapshot>>
        /\ \A q \in Reader \ {r} : rpc'[q] = rpc[q] /\ at'[q] = at[q]
    BY <1>0, <1>9 DEF BeginOutputs, Verified, Enter
  <2> QED
    BY <1>2, <2>1 DEF WrittenInv
<1>10. ASSUME NEW r \in Reader, CreateOutput(r) PROVE WrittenInv'
  <2>1. /\ rpc[r] = "create" /\ rpc'[r] \in {"create", "write"}
        /\ rpc'[r] = "write" => at'[r] = 0
        /\ UNCHANGED <<outputs, view, snapshot>>
        /\ \A q \in Reader \ {r} : rpc'[q] = rpc[q] /\ at'[q] = at[q]
    BY <1>0, <1>10 DEF CreateOutput, Again, Enter
  <2>2. outputs'[r] = NoOutputs
    BY <2>1 DEF WrittenInv
  <2>3. rpc'[r] = "write" => Written(r, at[r])'
    <3> HAVE rpc'[r] = "write"
    <3>1. \A f \in Elems(Recorded) : outputs'[r][f] = <<>>
      BY <2>2 DEF NoOutputs
    <3>2. 1..0 = {} /\ Len(<<>>) = 0
      BY SMT
    <3> QED
      BY <2>1, <3>1, <3>2 DEF Written
  <2>4. 0 <= Len(snapshot[r])
    BY <1>0, SMT
  <2> QED
    BY <1>2, <2>1, <2>2, <2>3, <2>4
<1>11. ASSUME NEW r \in Reader, FlushOutputs(r) PROVE WrittenInv'
  <2>1. /\ rpc[r] = "write" /\ rpc'[r] = "report" /\ at[r] = Len(snapshot[r])
        /\ UNCHANGED <<outputs, view, snapshot>>
        /\ \A q \in Reader \ {r} : rpc'[q] = rpc[q] /\ at'[q] = at[q]
    BY <1>0, <1>11 DEF FlushOutputs, Enter
  <2>2. Written(r, Len(view[r]))
    BY <2>1 DEF RInv, SnapshotInv, Writing, WrittenInv
  <2>3. Written(r, Len(view[r]))'
    BY <2>1, <2>2 DEF Written
  <2> QED
    BY <1>2, <2>1, <2>3
<1>12. ASSUME NEW r \in Reader, CreateReport(r) PROVE WrittenInv'
  <2>1. /\ rpc[r] = "report" /\ UNCHANGED <<rpc, outputs, view, snapshot>>
        /\ \A q \in Reader \ {r} : at'[q] = at[q]
    BY <1>0, <1>12 DEF CreateReport, Again
  <2>2. Written(r, Len(view[r]))'
    BY <2>1 DEF WrittenInv, Written
  <2> QED
    BY <1>2, <2>1, <2>2
<1>13. ASSUME NEW r \in Reader, RejectEntry(r) \/ EndVerify(r) \/ WriteReport(r) \/ FailReader(r)
       PROVE  WrittenInv'
  BY <1>3, <1>13 DEF RejectEntry, EndVerify, WriteReport, FailReader, Ended
<1>14. CASE UNCHANGED allVars
  BY <1>1, <1>14 DEF allVars
<1> QED
  BY <1>4, <1>5, <1>6, <1>7, <1>8, <1>9, <1>10, <1>11, <1>12, <1>13, <1>14, WriteChunkStep
     DEF ReadersNext, VerifyStep, RestoreStep

\* Both hold of every reachable state.
LEMMA ViewInvariance == ReadersSpec => [](ArchiveInv /\ RInv /\ ViewInv /\ WrittenInv)
<1>1. ArchiveInv /\ RInv /\ ViewInv /\ [ReadersNext]_allVars => ViewInv'
  BY ViewStep DEF RInv
<1>2. RInv /\ WrittenInv /\ [ReadersNext]_allVars => WrittenInv'
  BY WrittenStep
<1> QED
  BY <1>1, <1>2, ViewInit, ReadersInvariance, ReadersKeepArchive, PTL DEF ReadersSpec

\* verify and restore, which take no lock, reject an archive only for a damaged
\* chunk or for one that is missing of an operation still pending: no step of a
\* backup or a recovery beside them is a reason.
THEOREM RejectionsAreJustified == ReadersSpec => RejectionsJustified
<1>1. ArchiveInv /\ RInv /\ ViewInv /\ [ReadersNext]_allVars =>
        [\A r \in Reader : rpc[r] # "rejected" /\ rpc'[r] = "rejected" =>
           \E l \in Elems(view[r]) :
              \/ l.chunk \in damaged
              \/ l.chunk \notin chunks /\ \E o \in ops : l \in Elems(pLines[o])]_allVars
  <2> SUFFICES ASSUME ArchiveInv, RInv, ViewInv, ReadersNext, NEW r \in Reader,
                      rpc[r] # "rejected", rpc'[r] = "rejected"
               PROVE  \E l \in Elems(view[r]) :
                         \/ l.chunk \in damaged
                         \/ l.chunk \notin chunks /\ \E o \in ops : l \in Elems(pLines[o])
    OBVIOUS
  <2>1. rpc \in [Reader -> Ended \cup {"idle", "verify", "create", "write", "report"}]
    BY DEF RInv, ReadersTypeOK
  <2>2. rpc' # rpc
    OBVIOUS
  <2>3. ~ MachineStops
    <3>1. rpc[r] \in Ended \cup {"idle"} => rpc[r] # "rejected"
      OBVIOUS
    <3> QED
      BY <2>1, <3>1, Zenon DEF MachineStops
  <2>4. ASSUME NEW q \in Reader, VerifyStep(q) PROVE q = r /\ RejectEntry(r)
    BY <2>1, <2>4 DEF VerifyStep, LoadManifest, VerifyEntry, RejectEntry, EndVerify,
       Enter, Again, End
  <2>5. ASSUME NEW q \in Reader PROVE ~ RestoreStep(q) /\ ~ FailReader(q)
    BY <2>1 DEF RestoreStep, BeginOutputs, CreateOutput, WriteChunk, FlushOutputs,
       CreateReport, WriteReport, FailReader, Enter, Again, End
  <2>6. ~ ArchiveStep /\ \A c \in chunks : ~ DamageChunk(c)
    BY <2>2 DEF ArchiveStep, DamageChunk, readerLocals
  <2>7. RejectEntry(r)
    BY <2>3, <2>4, <2>5, <2>6 DEF ReadersNext
  <2> DEFINE n == at[r] + 1
             l == view[r][n]
  <2>8. n \in DOMAIN view[r] /\ ~ Genuine(r, n)
    <3>1. at[r] \in Nat /\ view[r] \in Seq(Line)
      BY DEF RInv, ReadersTypeOK
    <3>2. at[r] < Len(view[r]) /\ ~ Genuine(r, n)
      BY <2>7 DEF RejectEntry, HasEntry
    <3> QED
      BY <3>1, <3>2, SMT
  <2>9. l.prev = LastChunk(SubSeq(view[r], 1, n - 1))
    <3>1. view[r] \in Seq(Line) /\ ChainedTo(view[r], Genesis)
      BY DEF RInv, ReadersTypeOK, ViewInv
    <3> HIDE DEF n
    <3> QED
      BY <2>8, <3>1, ChainedLast
  <2>10. l.chunk \notin chunks \ damaged
    BY <2>8, <2>9 DEF Genuine, Intact
  <2>11. l \in Elems(view[r])
    BY <2>8 DEF Elems
  <2>12. l \in Elems(manifest)
    BY <2>11 DEF ViewInv
  <2>13. l.chunk \in chunks \/ \E o \in ops : l \in Elems(pLines[o])
    BY <2>12 DEF ArchiveInv, Settled
  <2> QED
    BY <2>10, <2>11, <2>13
<1> QED
  BY ViewInvariance, <1>1, PTL DEF ReadersSpec, RejectionsJustified

\* A record goes to one raw file.
LEMMA RoutedOnce ==
    ASSUME NEW recs
    PROVE  /\ Routed("canonical", recs) = recs
           /\ Routed("codex-raw", recs) \cup Routed("claude-raw", recs) = recs
           /\ Routed("codex-raw", recs) \cap Routed("claude-raw", recs) = {}
<1>1. /\ Routed("canonical", recs) = recs
      /\ Routed("codex-raw", recs) = {c \in recs : c[1] \in CodexSource}
      /\ Routed("claude-raw", recs) = {c \in recs : c[1] \notin CodexSource}
  BY DEF Routed
<1> QED
  BY <1>1

\* A restore that ends well has written every record a backup would have skipped
\* when it began, each once, and each to the raw file of its provider.
THEOREM RestoresWhole == ReadersSpec => RestoreIsWhole
<1>1. ArchiveInv /\ RInv /\ ViewInv /\ WrittenInv /\ [ReadersNext]_allVars =>
        [\A r \in Restores : rpc[r] # "done" /\ rpc'[r] = "done" =>
           LET all == outputs[r]["canonical"]
               codex == outputs[r]["codex-raw"]  claude == outputs[r]["claude-raw"]
           IN  /\ seenAt[r] \subseteq UNION Elems(all)
               /\ \A i, j \in DOMAIN all : i # j => all[i] \cap all[j] = {}
               /\ \A i \in DOMAIN all : /\ codex[i] \cup claude[i] = all[i]
                                        /\ codex[i] \cap claude[i] = {}]_allVars
  <2> SUFFICES ASSUME RInv, ViewInv, WrittenInv, ReadersNext, NEW r \in Restores,
                      rpc[r] # "done", rpc'[r] = "done"
               PROVE  LET all == outputs[r]["canonical"]
                          codex == outputs[r]["codex-raw"]
                          claude == outputs[r]["claude-raw"]
                      IN  /\ seenAt[r] \subseteq UNION Elems(all)
                          /\ \A i, j \in DOMAIN all : i # j => all[i] \cap all[j] = {}
                          /\ \A i \in DOMAIN all : /\ codex[i] \cup claude[i] = all[i]
                                                   /\ codex[i] \cap claude[i] = {}
    OBVIOUS
  <2>0. r \in Reader
    BY ReaderAssumption
  <2>1. rpc \in [Reader -> Ended \cup {"idle", "verify", "create", "write", "report"}]
    BY DEF RInv, ReadersTypeOK
  <2>2. rpc' # rpc
    OBVIOUS
  <2>3. ~ MachineStops
    BY <2>0, <2>1, Zenon DEF MachineStops
  <2>4. ASSUME NEW q \in Reader PROVE ~ VerifyStep(q) /\ ~ FailReader(q)
    BY <2>0, <2>1 DEF VerifyStep, LoadManifest, VerifyEntry, RejectEntry, EndVerify,
       FailReader, Enter, Again, End
  <2>5. ASSUME NEW q \in Reader, RestoreStep(q) PROVE rpc[r] = "report"
    BY <2>0, <2>1, <2>5 DEF RestoreStep, BeginOutputs, CreateOutput, WriteChunk,
       FlushOutputs, CreateReport, WriteReport, Enter, Again, End
  <2>6. ~ ArchiveStep /\ \A c \in chunks : ~ DamageChunk(c)
    BY <2>2 DEF ArchiveStep, DamageChunk, readerLocals
  <2>7. Written(r, Len(view[r]))
    BY <2>0, <2>3, <2>4, <2>5, <2>6 DEF ReadersNext, WrittenInv
  <2>8. /\ view[r] \in Seq(Line)
        /\ outputs[r] \in [Elems(Recorded) -> Seq(SUBSET (Record \cup {Garbled}))]
    BY <2>0 DEF RInv, ReadersTypeOK
  <2>9. Elems(Recorded) = {"canonical", "codex-raw", "claude-raw"}
    BY SMT DEF Elems, Recorded
  <2> DEFINE all == outputs[r]["canonical"]
             codex == outputs[r]["codex-raw"]
             claude == outputs[r]["claude-raw"]
             v == view[r]
  <2>10. DOMAIN all = DOMAIN v /\ DOMAIN v = 1..Len(v)
    <3>1. all \in Seq(SUBSET (Record \cup {Garbled})) /\ Len(all) = Len(v)
      BY <2>7, <2>8, <2>9 DEF Written
    <3> HIDE DEF all, v
    <3> QED
      BY <2>8, <3>1, SMT DEF v
  <2>11. \A i \in DOMAIN v : /\ all[i] = v[i].recs
                             /\ codex[i] = Routed("codex-raw", v[i].recs)
                             /\ claude[i] = Routed("claude-raw", v[i].recs)
    BY <2>7, <2>9, <2>10, RoutedOnce DEF Written
  <2>12. OwnBatches(v) /\ seenAt[r] \subseteq RecsOf(v)
    BY <2>0 DEF ViewInv
  <2> HIDE DEF all, codex, claude, v
  <2>13. seenAt[r] \subseteq UNION Elems(all)
    <3>1. Elems(all) = {l.recs : l \in Elems(v)}
      BY <2>10, <2>11 DEF Elems
    <3> QED
      BY <2>12, <3>1 DEF RecsOf
  <2>14. \A i, j \in DOMAIN all : i # j => all[i] \cap all[j] = {}
    BY <2>10, <2>11, <2>12 DEF OwnBatches
  <2>15. \A i \in DOMAIN all : codex[i] \cup claude[i] = all[i] /\ codex[i] \cap claude[i] = {}
    BY <2>10, <2>11, RoutedOnce
  <2> QED
    BY <2>13, <2>14, <2>15 DEF all, codex, claude
<1> QED
  BY ViewInvariance, <1>1, PTL DEF ReadersSpec, RestoreIsWhole
=============================================================================
