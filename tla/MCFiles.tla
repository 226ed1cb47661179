------------------------------ MODULE MCFiles ------------------------------
(***************************************************************************)
(* Commands and tasks that read, change and write the same files, rows and *)
(* messages, for one run of TLC.                                           *)
(* They share no state with each other: a behaviour is one of a component, *)
(* the subject, and the others stay where they began.                      *)
(***************************************************************************)
EXTENDS GuildConfig, Leaderboard, NewCardPush, PunishmentHistory, ScanSchedule, TopChannel

VARIABLE subject

Parts == {"config", "board", "push", "history", "schedule", "top"}

vars == <<subject, configVars, boardVars, pushVars, historyVars, scheduleVars, topVars>>

Init ==
    /\ subject \in Parts
    /\ ConfigInit
    /\ BoardInit
    /\ PushInit
    /\ HistoryInit
    /\ ScheduleInit
    /\ TopInit
    \* The others stay at one initial state each.
    /\ (subject # "config" => \A p \in PresetIDs : rows.presets[p] = Absent)
    /\ (subject # "board" => boardFile = Blank)
    /\ (subject # "push" => pushFile = Saved(EmptyPushConfig))
    /\ (subject # "schedule" => disabled)
    /\ (subject # "top" => topRow = NoTopChannel)

\* A step of the part, and of no other.
Step(part, next, others) == subject = part /\ next /\ UNCHANGED others /\ UNCHANGED subject

Next ==
    \/ Step("config", ConfigNext, <<boardVars, pushVars, historyVars, scheduleVars, topVars>>)
    \/ Step("board", BoardNext, <<configVars, pushVars, historyVars, scheduleVars, topVars>>)
    \/ Step("push", PushNext, <<configVars, boardVars, historyVars, scheduleVars, topVars>>)
    \/ Step("history", HistoryNext, <<configVars, boardVars, pushVars, scheduleVars, topVars>>)
    \/ Step("schedule", ScheduleNext, <<configVars, boardVars, pushVars, historyVars, topVars>>)
    \/ Step("top", TopNext, <<configVars, boardVars, pushVars, historyVars, scheduleVars>>)

\* The schedule and the cleaner go on by themselves: ScheduleFairness and TopFairness hold
\* where they are the subject.
Scheduled(action) == subject = "schedule" /\ action
Cleaned(action) == subject = "top" /\ action

Spec ==
    /\ Init
    /\ [][Next]_vars
    /\ WF_scheduleVars(Scheduled(DayPasses))
    /\ WF_scheduleVars(Scheduled(StartDailyScan))
    /\ WF_scheduleVars(Scheduled(CountDailyScan))
    /\ WF_scheduleVars(Scheduled(ScanStep("daily")))
    /\ SF_scheduleVars(Scheduled(LoadScanLock))
    /\ SF_scheduleVars(Scheduled(ReadTaskConfig("other")))
    /\ \A c \in Cleanings : WF_topVars(Cleaned(CleanerStep(c) /\ NoTopFault))

TypeOK ==
    /\ subject \in Parts
    /\ ConfigTypeOK
    /\ BoardTypeOK
    /\ PushTypeOK
    /\ HistoryTypeOK
    /\ ScheduleTypeOK
    /\ TopTypeOK
-----------------------------------------------------------------------------
\* What ScanSchedule promises, where it is the subject: a full scan of all guilds comes
\* round again and again (runInitialScan, runDailyScanTasks).
FullScansRecur == subject = "schedule" => FullScansComeRound
=============================================================================
