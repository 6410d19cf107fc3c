------------------------------- MODULE Monitor -------------------------------
(***************************************************************************)
(* The monitor command: cmd_monitor of commands/monitor.rs, and the policy *)
(* and verify-schedule files of commands/support.rs.                       *)
(*                                                                         *)
(* A monitor runs cycles of a backup and, when one is due, a verification. *)
(* Several monitors may watch one archive, a daily and a weekly one, say.  *)
(* They share the policy file, read and written when a monitor starts, and *)
(* the file of the slots verified last, read in every cycle and rewritten, *)
(* not atomically, after a scheduled verification.                         *)
(*                                                                         *)
(* A backup or a verification is one step that succeeds or fails: Backup   *)
(* has its inside.  Of the policy, only what decides on verification is    *)
(* kept.                                                                   *)
(***************************************************************************)
EXTENDS Integers

CONSTANTS
    Proc,          \* monitors
    Option,        \* Option[p]: --verify-schedule of p, or None
    Cycles,        \* --cycles: 0 means forever
    VerifyEvery,   \* --verify-every: 0 means never
    None,
    MaxDay,        \* bound: the clock stops on this day
    WeekDays,      \* days of a week
    FaultsAllowed  \* whether the state file can be out of reach

Schedule == {"daily", "weekly", "none"}

\* What the command can return; <<n, what>> is the error of what in cycle n.
Ok          == <<0, "ok">>
PolicyError == <<0, "policy">>
StateError  == <<0, "state">>
Killed      == <<0, "killed">>
CycleError  == (Nat \ {0}) \X {"backup", "verify"}

ASSUME OptionAssumption ==
    None \notin Schedule /\ Option \in [Proc -> Schedule \cup {None}]
ASSUME NoneAssumption ==
    None \notin CycleError \cup {Ok, PolicyError, StateError, Killed}
ASSUME NumberAssumption ==
    /\ {Cycles, VerifyEvery, MaxDay} \subseteq Nat
    /\ WeekDays \in Nat \ {0}
    /\ FaultsAllowed \in BOOLEAN

VARIABLES
    day,        \* the clock
    config,     \* verify_schedule in config.json; None: no file; "torn": empty
    slots,      \* verify-schedule-state.env: the last slot of each schedule
    (* locals of cmd_monitor *)
    pc,
    schedule,   \* policy.verify_schedule
    cycle,
    due,        \* scheduled_verify
    mark,       \* the schedule state about to be written
    runError,
    result,     \* what the command returned
    (* history *)
    firstError  \* the first backup or verification that failed

files  == <<config, slots>>
locals == <<pc, schedule, cycle, due, mark, runError, result>>
vars   == <<day, files, locals, firstError>>

-----------------------------------------------------------------------------
Slots == [{"daily", "weekly"} -> Nat \cup {None}]
NoSlots == [s \in {"daily", "weekly"} |-> None]

\* current_daily_slot, current_weekly_slot
CurrentSlot(s) == IF s = "daily" THEN day ELSE day \div WeekDays

\* Mutated: any recorded slot will do.
IsDueOnce(s) == s # "none" /\ slots[s] = None

\* is_scheduled_verify_due
IsDue(s) == s # "none" /\ slots[s] # CurrentSlot(s)

CycleVerify(p) == VerifyEvery > 0 /\ cycle[p] % VerifyEvery = 0

\* A monitor that runs forever only asks its counter for multiples.
NextCycle(c) ==
    IF Cycles > 0 THEN c + 1 ELSE IF VerifyEvery = 0 THEN 1 ELSE (c % VerifyEvery) + 1

\* Mutated: the last error is kept.
KeepLastError(old, new) == new

\* run_error.get_or_insert
KeepFirstError(old, new) == IF old = None THEN new ELSE old

\* mark_scheduled_verify_done: the state as read, with one slot replaced.
SlotsWith(s) == [slots EXCEPT ![s] = CurrentSlot(s)]

\* Mutated: errors count in endless monitors only.
CountsErrorsWhenEndless == Cycles = 0

CountsErrors == Cycles > 0

Init ==
    /\ day = 0
    /\ config = None
    /\ slots = NoSlots
    /\ pc = [p \in Proc |-> "start"]
    /\ schedule = [p \in Proc |-> "none"]
    /\ cycle = [p \in Proc |-> 0]
    /\ due = [p \in Proc |-> FALSE]
    /\ mark = [p \in Proc |-> NoSlots]
    /\ runError = [p \in Proc |-> None]
    /\ result = [p \in Proc |-> None]
    /\ firstError = [p \in Proc |-> None]

Goto(p, label) == pc' = [pc EXCEPT ![p] = label]

Exit(p, how) ==
    /\ Goto(p, "exit")
    /\ result' = [result EXCEPT ![p] = how]

-----------------------------------------------------------------------------
(* Start: the policy.  Writing the file truncates it first. *)

Rest == <<day, slots, cycle, due, mark, runError, result, firstError>>

\* load_or_init_monitor_policy of an archive that has no policy
CreatePolicy(p) ==
    /\ pc[p] = "start" /\ config = None
    /\ config' = "torn"
    /\ Goto(p, "create")
    /\ UNCHANGED <<schedule, Rest>>

WriteDefaultPolicy(p) ==
    /\ pc[p] = "create"
    /\ config' = "weekly"
    /\ schedule' = [schedule EXCEPT ![p] = IF Option[p] = None THEN "weekly" ELSE Option[p]]
    /\ Goto(p, "persist")
    /\ UNCHANGED Rest

LoadPolicy(p) ==
    /\ pc[p] = "start" /\ config \in Schedule
    /\ schedule' = [schedule EXCEPT ![p] = IF Option[p] = None THEN config ELSE Option[p]]
    /\ Goto(p, "persist")
    /\ UNCHANGED <<config, Rest>>

\* persist_monitor_policy
TruncatePolicy(p) ==
    /\ pc[p] = "persist"
    /\ config' = "torn"
    /\ Goto(p, "policy")
    /\ UNCHANGED <<schedule, Rest>>

PersistPolicy(p) ==
    /\ pc[p] = "policy"
    /\ config' = schedule[p]
    /\ Goto(p, "cycle")
    /\ UNCHANGED <<schedule, Rest>>

\* An empty file is not a policy; reading and writing can fail.
StartFails(p) ==
    /\ \/ pc[p] = "start" /\ config = "torn"
       \/ pc[p] \in {"start", "create", "persist", "policy"} /\ FaultsAllowed
    /\ Exit(p, PolicyError)
    /\ UNCHANGED <<day, files, schedule, cycle, due, mark, runError, firstError>>

(* A cycle *)

CheckDue(p) ==
    /\ pc[p] = "cycle"
    /\ cycle' = [cycle EXCEPT ![p] = NextCycle(@)]
    /\ due' = [due EXCEPT ![p] = IsDue(schedule[p])]
    /\ Goto(p, "backup")
    /\ UNCHANGED <<day, files, schedule, mark, runError, result, firstError>>

\* The "?" after is_scheduled_verify_due.
CheckDueFails(p) ==
    /\ FaultsAllowed
    /\ pc[p] = "cycle"
    /\ cycle' = [cycle EXCEPT ![p] = NextCycle(@)]
    /\ Exit(p, StateError)
    /\ UNCHANGED <<day, files, schedule, due, mark, runError, firstError>>

\* A backup or verification failed: printed, logged and, with --cycles, kept.
NoteError(p, what) ==
    LET error == <<cycle[p], what>>
    IN  /\ firstError' = [firstError EXCEPT ![p] = IF @ = None THEN error ELSE @]
        /\ runError' = [runError EXCEPT ![p] =
                          IF CountsErrors THEN KeepFirstError(@, error) ELSE @]

AfterBackup(p) == IF due[p] \/ CycleVerify(p) THEN "verify" ELSE "end"

BackupSucceeds(p) ==
    /\ pc[p] = "backup"
    /\ Goto(p, AfterBackup(p))
    /\ UNCHANGED <<day, files, schedule, cycle, due, mark, runError, result, firstError>>

BackupFails(p) ==
    /\ pc[p] = "backup"
    /\ NoteError(p, "backup")
    /\ Goto(p, AfterBackup(p))
    /\ UNCHANGED <<day, files, schedule, cycle, due, mark, result>>

VerifySucceeds(p) ==
    /\ pc[p] = "verify"
    /\ Goto(p, IF due[p] THEN "mark" ELSE "end")
    /\ UNCHANGED <<day, files, schedule, cycle, due, mark, runError, result, firstError>>

VerifyFails(p) ==
    /\ pc[p] = "verify"
    /\ NoteError(p, "verify")
    /\ Goto(p, "end")
    /\ UNCHANGED <<day, files, schedule, cycle, due, mark, result>>

(* mark_scheduled_verify_done: read the file, truncate it, write it *)

ReadSlots(p) ==
    /\ pc[p] = "mark"
    /\ mark' = [mark EXCEPT ![p] = SlotsWith(schedule[p])]
    /\ Goto(p, "truncate")
    /\ UNCHANGED <<day, files, schedule, cycle, due, runError, result, firstError>>

TruncateSlots(p) ==
    /\ pc[p] = "truncate"
    /\ slots' = NoSlots
    /\ Goto(p, "write")
    /\ UNCHANGED <<day, config, schedule, cycle, due, mark, runError, result, firstError>>

WriteSlots(p) ==
    /\ pc[p] = "write"
    /\ slots' = mark[p]
    /\ mark' = [mark EXCEPT ![p] = NoSlots]
    /\ Goto(p, "end")
    /\ UNCHANGED <<day, config, schedule, cycle, due, runError, result, firstError>>

\* The "?" after mark_scheduled_verify_done.
MarkFails(p) ==
    /\ FaultsAllowed
    /\ pc[p] \in {"mark", "truncate", "write"}
    /\ Exit(p, StateError)
    /\ UNCHANGED <<day, files, schedule, cycle, due, mark, runError, firstError>>

\* Mutated: one cycle too many.
PastLastCycle(p) == Cycles > 0 /\ cycle[p] > Cycles

LastCycle(p) == Cycles > 0 /\ cycle[p] >= Cycles

\* The sleep is in here.
EndCycle(p) ==
    /\ pc[p] = "end"
    /\ ~ LastCycle(p)
    /\ Goto(p, "cycle")
    /\ UNCHANGED <<day, files, schedule, cycle, due, mark, runError, result, firstError>>

Finish(p) ==
    /\ pc[p] = "end"
    /\ LastCycle(p)
    /\ Exit(p, IF runError[p] = None THEN Ok ELSE runError[p])
    /\ UNCHANGED <<day, files, schedule, cycle, due, mark, runError, firstError>>

-----------------------------------------------------------------------------
NextDay ==
    /\ day < MaxDay
    /\ day' = day + 1
    /\ UNCHANGED <<files, locals, firstError>>

Kill(p) ==
    /\ pc[p] # "exit"
    /\ Exit(p, Killed)
    /\ UNCHANGED <<day, files, schedule, cycle, due, mark, runError, firstError>>

Start(p) ==
    \/ CreatePolicy(p) \/ WriteDefaultPolicy(p) \/ LoadPolicy(p)
    \/ TruncatePolicy(p) \/ PersistPolicy(p) \/ StartFails(p)

Cycle(p) ==
    \/ CheckDue(p) \/ CheckDueFails(p)
    \/ BackupSucceeds(p) \/ BackupFails(p)
    \/ VerifySucceeds(p) \/ VerifyFails(p)
    \/ ReadSlots(p) \/ TruncateSlots(p) \/ WriteSlots(p) \/ MarkFails(p)
    \/ EndCycle(p) \/ Finish(p)

Next == \/ NextDay
        \/ \E p \in Proc : Start(p) \/ Cycle(p) \/ Kill(p)

Spec == Init /\ [][Next]_vars

\* A monitor that is not killed keeps running, and a verification that is due
\* does not fail every time.
FairSpec == /\ Spec
            /\ \A p \in Proc : /\ WF_vars(Start(p) \/ Cycle(p))
                              /\ SF_vars(due[p] /\ VerifySucceeds(p))

-----------------------------------------------------------------------------
(* Properties *)

TypeOK ==
    /\ day \in 0..MaxDay
    /\ config \in Schedule \cup {None, "torn"}
    /\ slots \in Slots
    /\ pc \in [Proc -> {"start", "create", "persist", "policy", "cycle", "backup", "verify", "mark",
                        "truncate", "write", "end", "exit"}]
    /\ schedule \in [Proc -> Schedule]
    /\ cycle \in [Proc -> Nat]
    /\ Cycles > 0 => \A p \in Proc : cycle[p] <= Cycles
    /\ due \in [Proc -> BOOLEAN]
    /\ mark \in [Proc -> Slots]
    /\ runError \in [Proc -> CycleError \cup {None}]
    /\ result \in [Proc -> CycleError \cup {None, Ok, PolicyError, StateError, Killed}]
    /\ firstError \in [Proc -> CycleError \cup {None}]

\* A monitor reports success only when it went through all its cycles and no
\* backup and no verification failed in any of them.
SuccessMeansClean ==
    \A p \in Proc : result[p] = Ok => firstError[p] = None /\ cycle[p] = Cycles

\* When it reports a backup or a verification that failed, that one was the
\* first to fail, and all the cycles were completed.
CycleErrorIsFirst ==
    \A p \in Proc : result[p] \in CycleError =>
        result[p] = firstError[p] /\ cycle[p] = Cycles

\* The inductive invariant behind these two.
Starting == {"start", "create", "persist", "policy"}

ErrorKept == \A p \in Proc : Cycles > 0 => runError[p] = firstError[p]

CyclesCounted ==
    \A p \in Proc :
        /\ pc[p] \in Starting => cycle[p] = 0
        /\ pc[p] = "cycle" /\ Cycles > 0 => cycle[p] < Cycles
        /\ pc[p] \in {"backup", "verify", "mark", "truncate", "write", "end"} =>
             cycle[p] > 0

ReturnedOnce == \A p \in Proc : result[p] # None => pc[p] = "exit"

MonitorInv ==
    TypeOK /\ ErrorKept /\ CyclesCounted /\ ReturnedOnce
           /\ SuccessMeansClean /\ CycleErrorIsFirst

\* "Reporting the first error even if a later cycle succeeds" (README.md).
FirstErrorReported ==
    Cycles > 0 =>
        \A p \in Proc :
            result[p] \notin {None, Killed} /\ firstError[p] # None =>
                result[p] = firstError[p]

Running(p) == pc[p] \notin Starting \cup {"exit"}

\* The current slot is recorded as verified in the end, in every slot the clock
\* stops in, although verifications fail at first and the slot may pass while
\* one runs.
ScheduleSettles ==
    \A p \in Proc :
        <>[](Running(p) /\ schedule[p] # "none" =>
                slots[schedule[p]] = CurrentSlot(schedule[p]))
=============================================================================
