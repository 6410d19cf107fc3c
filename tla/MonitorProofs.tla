---------------------------- MODULE MonitorProofs ----------------------------
(***************************************************************************)
(* The exit result of a monitor tells what happened in its run, for any    *)
(* number of monitors, cycles and days, and with any failures.             *)
(***************************************************************************)
EXTENDS Monitor, TLAPS

-----------------------------------------------------------------------------
(* Operators *)

\* The counter goes up, and in a run of finitely many cycles by one.
LEMMA NextCycleCounts ==
    ASSUME NEW c \in Nat
    PROVE  /\ NextCycle(c) \in Nat \ {0}
           /\ Cycles > 0 => NextCycle(c) = c + 1
<1>1. Cycles \in Nat /\ VerifyEvery \in Nat
  BY NumberAssumption
<1>2. CASE Cycles > 0
  BY <1>1, <1>2, SMT DEF NextCycle
<1>3. CASE ~ (Cycles > 0) /\ VerifyEvery = 0
  BY <1>1, <1>3, SMT DEF NextCycle
<1>4. CASE ~ (Cycles > 0) /\ VerifyEvery # 0
  <2>1. c % VerifyEvery \in Nat
    BY <1>1, <1>4, SMT
  <2> QED
    BY <1>1, <1>4, <2>1, SMT DEF NextCycle
<1> QED
  BY <1>2, <1>3, <1>4

\* Slots are numbers.
LEMMA SlotType ==
    ASSUME day \in Nat, NEW s
    PROVE  CurrentSlot(s) \in Nat
<1>1. WeekDays \in Nat \ {0}
  BY NumberAssumption
<1>2. day \div WeekDays \in Nat
  BY <1>1, SMT
<1> QED
  BY <1>2 DEF CurrentSlot

\* Replacing a slot gives slots again.
LEMMA SlotsWithType ==
    ASSUME day \in Nat, slots \in Slots, NEW s
    PROVE  SlotsWith(s) \in Slots
<1> DEFINE new == CurrentSlot(s)
<1>1. new \in Nat
  BY SlotType
<1>2. SlotsWith(s) = [slots EXCEPT ![s] = new]
  BY DEF SlotsWith
<1>3. slots \in [{"daily", "weekly"} -> Nat \cup {None}]
  BY DEF Slots
<1> HIDE DEF new
<1>4. [slots EXCEPT ![s] = new] \in [{"daily", "weekly"} -> Nat \cup {None}]
  BY <1>1, <1>3
<1> QED
  BY <1>2, <1>4 DEF Slots

\* A result of its own is no error of a cycle, and no result is None.
LEMMA Results ==
    /\ {Ok, PolicyError, StateError, Killed} \cap CycleError = {}
    /\ None \notin CycleError
    /\ Ok \notin {None, PolicyError, StateError, Killed}
<1>1. \A w : <<0, w>> \notin CycleError
  BY SMT DEF CycleError
<1>2. {Ok, PolicyError, StateError, Killed} \cap CycleError = {}
  BY <1>1 DEF Ok, PolicyError, StateError, Killed
<1>3. Ok \notin {PolicyError, StateError, Killed}
  BY SMT DEF Ok, PolicyError, StateError, Killed
<1> QED
  BY <1>2, <1>3, NoneAssumption
-----------------------------------------------------------------------------
(* Types *)

\* The initial states are typed.
LEMMA MonitorTypeInit == Init => TypeOK
BY NumberAssumption, SMT DEF Init, TypeOK, Slots, NoSlots, Schedule

\* A failure that is noted is an error of the present cycle.
LEMMA NoteErrorType ==
    ASSUME TypeOK, NEW p \in Proc, NEW what \in {"backup", "verify"},
           cycle[p] > 0, NoteError(p, what)
    PROVE  /\ runError' \in [Proc -> CycleError \cup {None}]
           /\ firstError' \in [Proc -> CycleError \cup {None}]
<1> DEFINE error == <<cycle[p], what>>
<1>1. error \in CycleError
  BY SMT DEF TypeOK, CycleError
<1>2. /\ firstError' = [firstError EXCEPT ![p] = IF @ = None THEN error ELSE @]
      /\ runError' = [runError EXCEPT ![p] =
                        IF CountsErrors THEN KeepFirstError(@, error) ELSE @]
  BY DEF NoteError
<1> HIDE DEF error
<1> QED
  BY <1>1, <1>2, SMT DEF TypeOK, KeepFirstError

\* Every step keeps the types, if the counters are where they should be.
LEMMA MonitorTypeStep == TypeOK /\ CyclesCounted /\ [Next]_vars => TypeOK'
<1> SUFFICES ASSUME TypeOK, CyclesCounted, [Next]_vars PROVE TypeOK'
  OBVIOUS
<1> USE NumberAssumption, OptionAssumption DEF TypeOK, Goto, Exit, files, locals, Rest
<1>1. CASE UNCHANGED vars
  BY <1>1, SMT DEF vars
<1>2. CASE NextDay
  BY <1>2, SMT DEF NextDay
<1>3. ASSUME NEW p \in Proc, Kill(p) PROVE TypeOK'
  BY <1>3, SMT DEF Kill
<1>4. ASSUME NEW p \in Proc, CreatePolicy(p) PROVE TypeOK'
  BY <1>4, SMT DEF CreatePolicy
<1>5. ASSUME NEW p \in Proc, WriteDefaultPolicy(p) PROVE TypeOK'
  BY <1>5, SMT DEF WriteDefaultPolicy, Schedule
<1>6. ASSUME NEW p \in Proc, LoadPolicy(p) PROVE TypeOK'
  BY <1>6, SMT DEF LoadPolicy
<1>7. ASSUME NEW p \in Proc, TruncatePolicy(p) PROVE TypeOK'
  BY <1>7, SMT DEF TruncatePolicy
<1>8. ASSUME NEW p \in Proc, PersistPolicy(p) PROVE TypeOK'
  BY <1>8, SMT DEF PersistPolicy
<1>9. ASSUME NEW p \in Proc, StartFails(p) PROVE TypeOK'
  BY <1>9, SMT DEF StartFails
<1>10. ASSUME NEW p \in Proc, CheckDue(p) \/ CheckDueFails(p) PROVE TypeOK'
  <2>1. /\ NextCycle(cycle[p]) \in Nat
        /\ Cycles > 0 => NextCycle(cycle[p]) <= Cycles
    BY <1>10, NextCycleCounts, SMT DEF CyclesCounted, CheckDue, CheckDueFails
  <2>2. IsDue(schedule[p]) \in BOOLEAN
    BY DEF IsDue
  <2>3. CASE CheckDue(p)
    BY <2>1, <2>2, <2>3, SMT DEF CheckDue
  <2>4. CASE CheckDueFails(p)
    BY <2>1, <2>4, SMT DEF CheckDueFails
  <2> QED
    BY <1>10, <2>3, <2>4
<1>11. ASSUME NEW p \in Proc, BackupSucceeds(p) PROVE TypeOK'
  BY <1>11, SMT DEF BackupSucceeds, AfterBackup
<1>12. ASSUME NEW p \in Proc, BackupFails(p) PROVE TypeOK'
  <2>1. /\ runError' \in [Proc -> CycleError \cup {None}]
        /\ firstError' \in [Proc -> CycleError \cup {None}]
    BY <1>12, NoteErrorType DEF BackupFails, CyclesCounted
  <2>2. /\ pc' = [pc EXCEPT ![p] = AfterBackup(p)]
        /\ AfterBackup(p) \in {"verify", "end"}
        /\ UNCHANGED <<day, config, slots, schedule, cycle, due, mark, result>>
    BY <1>12 DEF BackupFails, AfterBackup
  <2> QED
    BY <2>1, <2>2, SMT
<1>13. ASSUME NEW p \in Proc, VerifySucceeds(p) PROVE TypeOK'
  BY <1>13, SMT DEF VerifySucceeds
<1>14. ASSUME NEW p \in Proc, VerifyFails(p) PROVE TypeOK'
  <2>1. /\ runError' \in [Proc -> CycleError \cup {None}]
        /\ firstError' \in [Proc -> CycleError \cup {None}]
    BY <1>14, NoteErrorType DEF VerifyFails, CyclesCounted
  <2>2. /\ pc' = [pc EXCEPT ![p] = "end"]
        /\ UNCHANGED <<day, config, slots, schedule, cycle, due, mark, result>>
    BY <1>14 DEF VerifyFails
  <2> QED
    BY <2>1, <2>2, SMT
<1>15. ASSUME NEW p \in Proc, ReadSlots(p) PROVE TypeOK'
  <2>1. SlotsWith(schedule[p]) \in Slots
    BY SlotsWithType, SMT
  <2> QED
    BY <1>15, <2>1, SMT DEF ReadSlots
<1>16. ASSUME NEW p \in Proc, TruncateSlots(p) \/ WriteSlots(p) PROVE TypeOK'
  <2>1. NoSlots \in Slots
    BY DEF NoSlots, Slots
  <2> QED
    BY <1>16, <2>1, SMT DEF TruncateSlots, WriteSlots
<1>17. ASSUME NEW p \in Proc, MarkFails(p) PROVE TypeOK'
  BY <1>17, SMT DEF MarkFails
<1>18. ASSUME NEW p \in Proc, EndCycle(p) PROVE TypeOK'
  BY <1>18, SMT DEF EndCycle
<1>19. ASSUME NEW p \in Proc, Finish(p) PROVE TypeOK'
  BY <1>19, SMT DEF Finish
<1> QED
  BY <1>1, <1>2, <1>3, <1>4, <1>5, <1>6, <1>7, <1>8, <1>9, <1>10, <1>11, <1>12, <1>13,
     <1>14, <1>15, <1>16, <1>17, <1>18, <1>19 DEF Next, Start, Cycle

-----------------------------------------------------------------------------
(* The inductive invariant *)

\* The initial states satisfy the invariant.
LEMMA MonitorInvInit == Init => MonitorInv
<1> SUFFICES ASSUME Init PROVE MonitorInv
  OBVIOUS
<1>1. TypeOK
  BY MonitorTypeInit
<1> QED
  BY <1>1, Results, SMT DEF Init, MonitorInv, ErrorKept, CyclesCounted, Starting,
     ReturnedOnce, SuccessMeansClean, CycleErrorIsFirst

\* Every step keeps the invariant.
LEMMA MonitorInvStep == MonitorInv /\ [Next]_vars => MonitorInv'
<1> SUFFICES ASSUME MonitorInv, [Next]_vars PROVE MonitorInv'
  OBVIOUS
<1>type. TypeOK'
  BY MonitorTypeStep DEF MonitorInv
<1> USE <1>type, NumberAssumption, Results
    DEF MonitorInv, ErrorKept, CyclesCounted, Starting, ReturnedOnce, SuccessMeansClean,
        CycleErrorIsFirst, TypeOK, Goto, Exit, files, locals, Rest
<1>1. CASE UNCHANGED vars
  BY <1>1, SMT DEF vars
<1>2. CASE NextDay
  BY <1>2, SMT DEF NextDay
<1>3. ASSUME NEW p \in Proc, Kill(p) PROVE MonitorInv'
  BY <1>3, SMT DEF Kill
<1>4. ASSUME NEW p \in Proc, CreatePolicy(p) PROVE MonitorInv'
  BY <1>4, SMT DEF CreatePolicy
<1>5. ASSUME NEW p \in Proc, WriteDefaultPolicy(p) PROVE MonitorInv'
  BY <1>5, SMT DEF WriteDefaultPolicy
<1>6. ASSUME NEW p \in Proc, LoadPolicy(p) PROVE MonitorInv'
  BY <1>6, SMT DEF LoadPolicy
<1>7. ASSUME NEW p \in Proc, TruncatePolicy(p) PROVE MonitorInv'
  BY <1>7, SMT DEF TruncatePolicy
<1>8. ASSUME NEW p \in Proc, PersistPolicy(p) PROVE MonitorInv'
  BY <1>8, SMT DEF PersistPolicy
<1>9. ASSUME NEW p \in Proc, StartFails(p) PROVE MonitorInv'
  BY <1>9, SMT DEF StartFails
<1>10. ASSUME NEW p \in Proc, CheckDue(p) \/ CheckDueFails(p) PROVE MonitorInv'
  <2>1. NextCycle(cycle[p]) \in Nat \ {0}
    BY NextCycleCounts
  <2>2. CASE CheckDue(p)
    BY <2>1, <2>2, SMT DEF CheckDue
  <2>3. CASE CheckDueFails(p)
    BY <2>1, <2>3, SMT DEF CheckDueFails
  <2> QED
    BY <1>10, <2>2, <2>3
<1>11. ASSUME NEW p \in Proc, BackupSucceeds(p) PROVE MonitorInv'
  BY <1>11, SMT DEF BackupSucceeds, AfterBackup
<1>12. ASSUME NEW p \in Proc, BackupFails(p) PROVE MonitorInv'
  BY <1>12, SMT DEF BackupFails, AfterBackup, NoteError, CountsErrors, KeepFirstError
<1>13. ASSUME NEW p \in Proc, VerifySucceeds(p) PROVE MonitorInv'
  BY <1>13, SMT DEF VerifySucceeds
<1>14. ASSUME NEW p \in Proc, VerifyFails(p) PROVE MonitorInv'
  BY <1>14, SMT DEF VerifyFails, NoteError, CountsErrors, KeepFirstError
<1>15. ASSUME NEW p \in Proc, ReadSlots(p) \/ TruncateSlots(p) \/ WriteSlots(p)
       PROVE  MonitorInv'
  BY <1>15, SMT DEF ReadSlots, TruncateSlots, WriteSlots
<1>16. ASSUME NEW p \in Proc, MarkFails(p) PROVE MonitorInv'
  BY <1>16, SMT DEF MarkFails
<1>17. ASSUME NEW p \in Proc, EndCycle(p) PROVE MonitorInv'
  BY <1>17, SMT DEF EndCycle, LastCycle
<1>18. ASSUME NEW p \in Proc, Finish(p) PROVE MonitorInv'
  BY <1>18, SMT DEF Finish, LastCycle
<1> QED
  BY <1>1, <1>2, <1>3, <1>4, <1>5, <1>6, <1>7, <1>8, <1>9, <1>10, <1>11, <1>12, <1>13,
     <1>14, <1>15, <1>16, <1>17, <1>18 DEF Next, Start, Cycle

-----------------------------------------------------------------------------
(* Theorems *)

\* The invariant of the monitor holds in every reachable state.
THEOREM MonitorInvariance == Spec => []MonitorInv
<1> QED
  BY MonitorInvInit, MonitorInvStep, PTL DEF Spec

\* Success is reported of clean, complete runs only.
THEOREM SuccessIsClean == Spec => []SuccessMeansClean
<1>1. MonitorInv => SuccessMeansClean
  BY DEF MonitorInv
<1> QED
  BY MonitorInvariance, <1>1, PTL

\* The backup or verify error that is reported is the first of a complete run.
THEOREM CycleErrorFirst == Spec => []CycleErrorIsFirst
<1>1. MonitorInv => CycleErrorIsFirst
  BY DEF MonitorInv
<1> QED
  BY MonitorInvariance, <1>1, PTL
=============================================================================
