---------------------------- MODULE ScanSchedule ----------------------------
(***************************************************************************)
(* When the forums are scanned (bot/scheduler.go, the frame of scanner/    *)
(* scan.go's Scan, the start-scan command).  A start of the process scans  *)
(* everything unless scan_lock.json tells of a full scan in the last day;  *)
(* three times a day the threads that are active are scanned, and every    *)
(* Target times everything.  The count of those is kept in memory and in   *)
(* the file, which every scan reads, changes and writes without a lock.    *)
(***************************************************************************)
EXTENDS Naturals

CONSTANTS
    Target,             \* daily scans to a full one: 21
    MaxManualScans,     \* bound: start-scan commands
    MaxScheduleFaults   \* bound: files that cannot be read or written

ASSUME TargetAssumption == Target \in Nat \ {0}
ASSUME ScheduleBoundAssumption == MaxManualScans \in Nat /\ MaxScheduleFaults \in Nat

VARIABLES
    disabled,       \* Config.DisableInitialScan
    scanLock,       \* scan_lock.json
    activeScanCount,
    scan,           \* scan[t]: locals of a task's Scan, and of what is after it
    manualScans,
    scheduleFaults

scheduleVars == <<disabled, scanLock, activeScanCount, scan, manualScans, scheduleFaults>>
-----------------------------------------------------------------------------
\* Bound: next to the daily task there is one other scan at a time, the initial one or that of
\* a command.
ScanTasks == {"other", "daily"}

\* recent: the scan's timestamp is less than a day old.  No file, and one that is no JSON or
\* is being written, reads as an empty map; count 0 stands for no count as well.
LockData == [scan_mode : {"none", "active", "full"}, recent : BOOLEAN, count : 0..Target]
NoLock == [scan_mode |-> "none", recent |-> FALSE, count |-> 0]

NoScan == [pc |-> "none"]
ScanLocals == [ pc    : {"load", "config", "scan", "read", "open", "write", "counted"},
                mode  : {"active", "full", "count"},    \* "count": the daily task keeps the count
                whole : BOOLEAN,                        \* no target guild
                data  : LockData ]                      \* lockData

NewScan(pc, mode, whole) == [pc |-> pc, mode |-> mode, whole |-> whole, data |-> NoLock]

ScheduleTypeOK ==
    /\ disabled \in BOOLEAN
    /\ scanLock \in LockData
    /\ activeScanCount \in 0..Target
    /\ scan \in [ScanTasks -> ScanLocals \cup {NoScan}]
    /\ manualScans \in 0..MaxManualScans
    /\ scheduleFaults \in 0..MaxScheduleFaults

\* The tasks of a process that has just started.
Started == [t \in ScanTasks |->
                IF t = "other" /\ ~disabled THEN NewScan("load", "full", TRUE) ELSE NoScan]

ScheduleInit ==
    /\ disabled \in BOOLEAN
    /\ scanLock = NoLock
    /\ activeScanCount = 0
    /\ scan = Started
    /\ manualScans = 0
    /\ scheduleFaults = 0
-----------------------------------------------------------------------------
ScheduleFault == scheduleFaults < MaxScheduleFaults /\ scheduleFaults' = scheduleFaults + 1
ScanAt(t, pc) == scan[t].pc = pc
ContinueScan(t, pc) == scan' = [scan EXCEPT ![t].pc = pc]

\* What a task does after its Scan, or after the count is kept.
Ended(t) == IF t = "daily" /\ scan[t].mode # "count" THEN NewScan("counted", scan[t].mode, TRUE) ELSE NoScan
EndScan(t) == scan' = [scan EXCEPT ![t] = Ended(t)]
-----------------------------------------------------------------------------
ModeOfLastScan == IF scanLock.scan_mode = "full" THEN "active" ELSE "full"

InitialMode == IF scanLock.scan_mode = "full" /\ scanLock.recent THEN "active" ELSE "full"

\* runInitialScan: the count, and whether the last full scan is recent.
LoadScanLock ==
    /\ ScanAt("other", "load")
    /\ \/ /\ activeScanCount' \in (IF scanLock.count = 0 THEN {activeScanCount, 0} ELSE {scanLock.count})
          /\ scan' = [scan EXCEPT !["other"] = NewScan("config", InitialMode, TRUE)]
          /\ UNCHANGED scheduleFaults
       \/ /\ scan' = [scan EXCEPT !["other"] = NewScan("config", "full", TRUE)]
          /\ ScheduleFault
          /\ UNCHANGED activeScanCount
    /\ UNCHANGED <<disabled, scanLock, manualScans>>

\* startDailyTasks at 5, 13 and 21 o'clock.  time.After is armed again after the run.
StartDailyScan ==
    /\ ScanAt("daily", "none")
    /\ scan' = [scan EXCEPT !["daily"] = NewScan("config", "active", TRUE)]
    /\ UNCHANGED <<disabled, scanLock, activeScanCount, manualScans, scheduleFaults>>

\* The start-scan command.
StartManualScan ==
    /\ ScanAt("other", "none")
    /\ manualScans < MaxManualScans
    /\ \E mode \in {"active", "full"}, whole \in BOOLEAN :
          scan' = [scan EXCEPT !["other"] = NewScan("config", mode, whole)]
    /\ manualScans' = manualScans + 1
    /\ UNCHANGED <<disabled, scanLock, activeScanCount, scheduleFaults>>

\* task_config.json cannot be read, or lacks the guild: Scan returns and leaves the lock.
ReadTaskConfig(t) ==
    /\ ScanAt(t, "config")
    /\ \/ ContinueScan(t, "scan") /\ UNCHANGED scheduleFaults
       \/ EndScan(t) /\ (IF scan[t].whole THEN ScheduleFault ELSE UNCHANGED scheduleFaults)
    /\ UNCHANGED <<disabled, scanLock, activeScanCount, manualScans>>

\* guildWg.Wait.  A scan that was cancelled or failed ends like one that was complete.
FinishScan(t) ==
    /\ ScanAt(t, "scan")
    /\ ContinueScan(t, "read")
    /\ UNCHANGED <<disabled, scanLock, activeScanCount, manualScans, scheduleFaults>>

CountTooFar(count) == count > Target

EnoughActiveScans(count) == count >= Target

\* runDailyScanTasks between its scans: after the active one the count goes up, and at Target
\* a full one follows; after that the count is 0.
CountDailyScan ==
    /\ ScanAt("daily", "counted")
    /\ IF scan["daily"].mode = "active"
       THEN /\ activeScanCount' = activeScanCount + 1
            /\ scan' = [scan EXCEPT !["daily"] =
                          IF EnoughActiveScans(activeScanCount + 1) THEN NewScan("config", "full", TRUE)
                          ELSE NewScan("read", "count", TRUE)]
       ELSE /\ activeScanCount' = 0
            /\ scan' = [scan EXCEPT !["daily"] = NewScan("read", "count", TRUE)]
    /\ UNCHANGED <<disabled, scanLock, manualScans, scheduleFaults>>

\* The file is read and the writer's entries are changed in the copy: a Scan sets mode and
\* time, the daily task the count.
ReadScanLock(t) ==
    /\ ScanAt(t, "read")
    /\ LET data == IF scan[t].mode = "count" THEN [scanLock EXCEPT !.count = activeScanCount]
                   ELSE [scanLock EXCEPT !.scan_mode = scan[t].mode, !.recent = TRUE]
       IN  scan' = [scan EXCEPT ![t].pc = "open", ![t].data = data]
    /\ UNCHANGED <<disabled, scanLock, activeScanCount, manualScans, scheduleFaults>>

\* os.WriteFile empties the file ...
OpenScanLock(t) ==
    /\ ScanAt(t, "open")
    /\ \/ ContinueScan(t, "write") /\ scanLock' = NoLock /\ UNCHANGED scheduleFaults
       \/ EndScan(t) /\ UNCHANGED scanLock /\ ScheduleFault
    /\ UNCHANGED <<disabled, activeScanCount, manualScans>>

\* ... and writes it.  Where another has written since, what is left may be no JSON.
WriteScanLock(t) ==
    /\ ScanAt(t, "write")
    /\ EndScan(t)
    /\ \/ scanLock' = scan[t].data /\ UNCHANGED scheduleFaults
       \/ scanLock # NoLock /\ scanLock' = NoLock /\ UNCHANGED scheduleFaults
       \/ scanLock' = NoLock /\ ScheduleFault
    /\ UNCHANGED <<disabled, activeScanCount, manualScans>>
-----------------------------------------------------------------------------
Aged(data) == [data EXCEPT !.recent = FALSE]

DayPasses ==
    /\ scanLock' = Aged(scanLock)
    /\ scan' = [t \in ScanTasks |-> IF scan[t] = NoScan THEN NoScan
                                    ELSE [scan[t] EXCEPT !.data = Aged(@)]]
    /\ UNCHANGED <<disabled, activeScanCount, manualScans, scheduleFaults>>

\* The process ends, where a scan may be cut short (FinishScan), and starts again.  Without
\* the initial scan it has to end at some time for the last time.
RestartSchedule ==
    /\ activeScanCount' = 0
    /\ scan' = Started
    /\ IF disabled THEN ScheduleFault ELSE UNCHANGED scheduleFaults
    /\ UNCHANGED <<disabled, scanLock, manualScans>>

ScanStep(t) ==
    ReadTaskConfig(t) \/ FinishScan(t) \/ ReadScanLock(t) \/ OpenScanLock(t) \/ WriteScanLock(t)

ScheduleNext ==
    \/ LoadScanLock
    \/ StartDailyScan
    \/ StartManualScan
    \/ CountDailyScan
    \/ \E t \in ScanTasks : ScanStep(t)
    \/ DayPasses
    \/ RestartSchedule

\* Days pass, a task goes on, and a process is not always stopped before the first statements
\* of its initial scan: strong fairness there, as it may be stopped again and again.
ScheduleFairness ==
    /\ WF_scheduleVars(DayPasses)
    /\ WF_scheduleVars(StartDailyScan)
    /\ WF_scheduleVars(CountDailyScan)
    /\ WF_scheduleVars(ScanStep("daily"))
    /\ SF_scheduleVars(LoadScanLock)
    /\ SF_scheduleVars(ReadTaskConfig("other"))

ScheduleSpec == ScheduleInit /\ [][ScheduleNext]_scheduleVars /\ ScheduleFairness
-----------------------------------------------------------------------------
(* Properties                                                              *)

\* A full scan of all guilds comes round again and again: by the daily count when the process
\* stays up, by the initial scan when it never does, whatever scans overwrite each other's
\* part of scan_lock.json, with bounds on what commands record as full and on what fails.
FullScanRuns == \E t \in ScanTasks : ScanAt(t, "scan") /\ scan[t].mode = "full" /\ scan[t].whole
FullScansComeRound == []<>FullScanRuns
=============================================================================
