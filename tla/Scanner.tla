------------------------------ MODULE Scanner ------------------------------
(***************************************************************************)
(* The forum scanner (scanner/scan.go, scanner/worker.go): a full or an    *)
(* active scan hands the forum channels of a guild to a pool of workers;   *)
(* a worker lists the threads of its channel, page by page for the         *)
(* archived ones, and goroutines save those that are not known yet.  A     *)
(* thread whose first message is answered with 404 goes on the exclusion   *)
(* list of task_config.json.  Scans of the scheduler and of /start-scan    *)
(* overlap, threads change while they are scanned, calls fail, a shutdown  *)
(* cancels the scans of the scheduler and the process may end at any step. *)
(*                                                                         *)
(* The guilds of one scan run side by side and share only the counters of  *)
(* the progress log, so a scan here is the scan of one guild.              *)
(***************************************************************************)
EXTENDS Naturals, FiniteSets, FiniteSetsExt

CONSTANTS
    Channels,       \* the forum channels of the guild: its partitions
    Threads,        \* threads that exist or will be created
    ChannelOf,      \* ChannelOf[t]: the channel of thread t
    ArchivedAt,     \* ArchivedAt[t]: when t was archived, if it is at first
    Scans,          \* goroutines that may run Scan
    Manual,         \* those of /start-scan, under context.Background
    MaxWorkers,     \* maxPartitionConcurrency
    PageSize,       \* archived threads per page
    MaxChanges,     \* bound: changes of threads
    MaxCrashes      \* bound: ends of the process

ASSUME ForumAssumption ==
    /\ ChannelOf \in [Threads -> Channels]
    /\ ArchivedAt \in [Threads -> Nat \ {0}]
    /\ \A t, u \in Threads : t # u => ArchivedAt[t] # ArchivedAt[u]
    /\ Manual \subseteq Scans

ASSUME FiniteAssumption == IsFiniteSet(Channels) /\ IsFiniteSet(Threads)

ASSUME PoolAssumption == MaxWorkers \in Nat \ {0} /\ PageSize \in Nat \ {0}

ASSUME BoundAssumption == MaxChanges \in Nat /\ MaxCrashes \in Nat

VARIABLES
    thread,         \* thread[t]: not yet created, active, archived or deleted
    archivedAt,     \* archivedAt[t]: when it was archived last
    locked,         \* locked threads
    headless,       \* threads whose first message is gone
    young,          \* threads created so lately that it may not be there yet
    posts,          \* the threads saved in the guild's database
    taskConfig,     \* task_config.json: whether it can be parsed, its exclusions
    writer,         \* who writes it under configMutex: {} or {<<k, t>>}
    scan,           \* scan[k]: mode and exclusions a running scan has read
    job,            \* job[k][c]: the partition task of channel c
    free,           \* free[k]: workers of scan k that wait for a task
    cancelled,      \* the context of the bot is done
    changes,
    crashes,
    owed,           \* history: owed[k]: the threads k has to save
    hasty           \* history: threads excluded for a 404 while they were young

forum == <<thread, archivedAt, locked, headless, young>>
config == <<taskConfig, writer, hasty>>
bounds == <<changes, crashes>>
vars == <<thread, archivedAt, locked, headless, young, posts, taskConfig, writer, scan, job,
          free, cancelled, changes, crashes, owed, hasty>>
-----------------------------------------------------------------------------
Off == [pc |-> "off"]
ScanConfig == [pc : {"run"}, mode : {"full", "active"}, excluded : SUBSET Threads]

NoTask == [pc |-> "off", todo |-> {}, known |-> {}, before |-> 0, more |-> FALSE]
Queued == [NoTask EXCEPT !.pc = "queued"]
Over == [NoTask EXCEPT !.pc = "over"]
PartitionTask ==
    [ pc     : {"off", "queued", "active", "threads", "over"},
      todo   : SUBSET Threads,    \* of the current list, left to the goroutines
      known  : SUBSET Threads,    \* existingThreads
      before : Nat,               \* the next page is older; 0 is nil
      more   : BOOLEAN ]          \* there is a page to come

TypeOK ==
    /\ thread \in [Threads -> {"none", "active", "archived", "deleted"}]
    /\ archivedAt \in [Threads -> Nat]
    /\ locked \in SUBSET Threads
    /\ headless \in SUBSET Threads
    /\ young \in SUBSET Threads
    /\ posts \in SUBSET Threads
    /\ taskConfig \in [whole : BOOLEAN, excluded : SUBSET Threads]
    /\ writer \in SUBSET (Scans \X Threads)
    /\ scan \in [Scans -> ScanConfig \cup {Off}]
    /\ job \in [Scans -> [Channels -> PartitionTask]]
    /\ free \in [Scans -> 0..MaxWorkers]
    /\ cancelled \in BOOLEAN
    /\ changes \in 0..MaxChanges
    /\ crashes \in 0..MaxCrashes
    /\ owed \in [Scans -> SUBSET Threads]
    /\ hasty \in SUBSET Threads

Init ==
    /\ thread \in [Threads -> {"none", "active", "archived"}]
    /\ archivedAt = ArchivedAt
    /\ locked = {}
    /\ headless = {}
    /\ young = {}
    /\ posts = {}
    /\ taskConfig = [whole |-> TRUE, excluded |-> {}]
    /\ writer = {}
    /\ scan = [k \in Scans |-> Off]
    /\ job = [k \in Scans |-> [c \in Channels |-> NoTask]]
    /\ free = [k \in Scans |-> 0]
    /\ cancelled = FALSE
    /\ changes = 0
    /\ crashes = 0
    /\ owed = [k \in Scans |-> {}]
    /\ hasty = {}
-----------------------------------------------------------------------------
(* Scan                                                                    *)

Done(k) == cancelled /\ k \notin Manual     \* ctx.Done()

Listed(c, state) == {t \in Threads : ChannelOf[t] = c /\ thread[t] = state}

\* The threads a scan is to find if nothing happens to them.
Wanted(mode) ==
    {t \in Threads \ (locked \cup headless \cup young) :
        thread[t] = "active" \/ (mode = "full" /\ thread[t] = "archived")}

\* The config is read without configMutex: one that is being written, or was left
\* half written, does not parse and ends the scan at once, as a database does that
\* cannot be opened.  Otherwise every channel becomes a task, and the task queue is
\* closed.
Scan(k, mode) ==
    /\ scan[k] = Off
    /\ ~ Done(k)
    /\ taskConfig.whole
    /\ scan' = [scan EXCEPT ![k] = [pc |-> "run", mode |-> mode, excluded |-> taskConfig.excluded]]
    /\ job' = [job EXCEPT ![k] = [c \in Channels |-> Queued]]
    /\ free' = [free EXCEPT ![k] = MaxWorkers]
    /\ owed' = [owed EXCEPT ![k] = Wanted(mode) \ taskConfig.excluded]
    /\ UNCHANGED <<forum, posts, config, cancelled, bounds>>

\* A worker is gone when it finds the context done or its channel cannot be
\* listed; the scan ends when no task is left or no worker.
Waiting(k) == {c \in Channels : job[k][c].pc = "queued"}
Working(k) == {c \in Channels : job[k][c].pc \in {"active", "threads"}}

EndScan(k) ==
    /\ scan[k] # Off
    /\ Working(k) = {}
    /\ Waiting(k) = {} \/ free[k] = 0
    /\ scan' = [scan EXCEPT ![k] = Off]
    /\ job' = [job EXCEPT ![k] = [c \in Channels |-> NoTask]]
    /\ free' = [free EXCEPT ![k] = 0]
    /\ owed' = [owed EXCEPT ![k] = {}]
    /\ UNCHANGED <<forum, posts, config, cancelled, bounds>>
-----------------------------------------------------------------------------
(* worker                                                                  *)

\* A failed call excuses the threads of its channel.
Fails(k, c) == owed' = [owed EXCEPT ![k] = {t \in @ : ChannelOf[t] # c}]

\* What a scan does not save: a full scan leaves out the excluded threads, an
\* active scan the saved ones, or none when the table cannot be read.
ExistingThreads(k, c) ==
    IF scan[k].mode = "full" THEN {{t \in scan[k].excluded : ChannelOf[t] = c}}
    ELSE {{}, {t \in posts : ChannelOf[t] = c}}

TakenByNobody(k) == free

\* A worker is busy with one task at a time.
Taken(k) == [free EXCEPT ![k] = @ - 1]

TakeTask(k, c) ==
    /\ job[k][c].pc = "queued"
    /\ free[k] > 0
    /\ free' = Taken(k)
    /\ \/ /\ Done(k)
          /\ job' = [job EXCEPT ![k][c] = Over]
       \/ /\ ~ Done(k)
          /\ \E known \in ExistingThreads(k, c) :
                job' = [job EXCEPT ![k][c].pc = "active", ![k][c].known = known]
    /\ UNCHANGED <<forum, posts, config, scan, cancelled, bounds, owed>>

\* ThreadsActive.  A locked thread is passed over.
ListActive(k, c) ==
    /\ job[k][c].pc = "active"
    /\ \/ /\ job' = [job EXCEPT ![k][c].pc = "threads",
                                ![k][c].todo = Listed(c, "active") \ locked,
                                ![k][c].more = (scan[k].mode = "full")]
          /\ UNCHANGED owed
       \/ /\ job' = [job EXCEPT ![k][c] = Over]
          /\ Fails(k, c)
    /\ UNCHANGED <<forum, posts, config, scan, free, cancelled, bounds>>

\* ThreadsArchived(channel, before, limit): the archived threads, newest first.
Older(c, before) ==
    {t \in Listed(c, "archived") : before = 0 \/ archivedAt[t] < before}
Page(c, before) ==
    {t \in Older(c, before) :
        Cardinality({u \in Older(c, before) : archivedAt[u] > archivedAt[t]}) < PageSize}

HasMoreThanAPage(c, before) == Cardinality(Older(c, before)) > PageSize + 1

HasMore(c, before) == Older(c, before) # Page(c, before)

SameBefore(c, before) == before

\* The archive timestamp of the last thread of a page.
NextBefore(c, before) == Min({archivedAt[t] : t \in Page(c, before)})

ListArchived(k, c) ==
    /\ job[k][c].pc = "threads"
    /\ job[k][c].todo = {}
    /\ job[k][c].more
    /\ LET before == job[k][c].before
       IN  \/ /\ Done(k)
              /\ job' = [job EXCEPT ![k][c] = Over]
              /\ UNCHANGED owed
           \/ /\ ~ Done(k)
              /\ Page(c, before) = {}
              /\ job' = [job EXCEPT ![k][c].more = FALSE]
              /\ UNCHANGED owed
           \/ /\ ~ Done(k)
              /\ Page(c, before) # {}
              /\ job' = [job EXCEPT ![k][c].todo = Page(c, before) \ locked,
                                    ![k][c].before = NextBefore(c, before),
                                    ![k][c].more = HasMore(c, before)]
              /\ UNCHANGED owed
           \/ /\ ~ Done(k)
              /\ job' = [job EXCEPT ![k][c].more = FALSE]
              /\ Fails(k, c)
    /\ UNCHANGED <<forum, posts, config, scan, free, cancelled, bounds>>

FinishTask(k, c) ==
    /\ job[k][c].pc = "threads"
    /\ job[k][c].todo = {}
    /\ ~ job[k][c].more
    /\ job' = [job EXCEPT ![k][c] = Over]
    /\ free' = [free EXCEPT ![k] = @ + 1]
    /\ UNCHANGED <<forum, posts, config, scan, cancelled, bounds, owed>>
-----------------------------------------------------------------------------
(* processThreadsChunk: its goroutines take the threads of a list in any order *)

AnyErrorIsGone(t) == TRUE

\* 404: the message is gone, or Discord does not serve it yet; for that reason
\* HandleThreadCreate waits and asks again.
FirstMessageNotFound(t) == t \in headless \cup young

Handling(k, t) ==
    /\ t \in job[k][ChannelOf[t]].todo
    /\ <<k, t>> \notin writer

Handled(k, t) == [job EXCEPT ![k][ChannelOf[t]].todo = @ \ {t}]

SkipThread(k, t) ==
    /\ Handling(k, t)
    /\ t \in job[k][ChannelOf[t]].known
    /\ job' = Handled(k, t)
    /\ UNCHANGED <<forum, posts, config, scan, free, cancelled, bounds, owed>>

\* The first message is fetched and the post inserted, or one of both fails.
SavePost(k, t) ==
    /\ Handling(k, t)
    /\ t \notin job[k][ChannelOf[t]].known
    /\ \/ /\ t \notin headless
          /\ posts' = posts \cup {t}
          /\ job' = [Handled(k, t) EXCEPT ![k][ChannelOf[t]].known = @ \cup {t}]
          /\ UNCHANGED owed
       \/ /\ job' = Handled(k, t)
          /\ Fails(k, ChannelOf[t])
          /\ UNCHANGED posts
    /\ UNCHANGED <<forum, config, scan, free, cancelled, bounds>>

\* AddThreadToExclusionList, under configMutex: the file is truncated, or nothing
\* happens: t is there already, or the file cannot be read, parsed or opened ...
BeginExclusion(k, t) ==
    /\ Handling(k, t)
    /\ t \notin job[k][ChannelOf[t]].known
    /\ FirstMessageNotFound(t)
    /\ writer = {}
    /\ \/ /\ taskConfig.whole /\ t \notin taskConfig.excluded
          /\ taskConfig' = [taskConfig EXCEPT !.whole = FALSE]
          /\ writer' = {<<k, t>>}
          /\ hasty' = hasty \cup ({t} \cap young)
          /\ UNCHANGED job
       \/ /\ job' = Handled(k, t)
          /\ UNCHANGED config
    /\ UNCHANGED <<forum, posts, scan, free, cancelled, bounds, owed>>

\* ... and written, unless the disk fails.
EndExclusion(k, t) ==
    /\ <<k, t>> \in writer
    /\ writer' = {}
    /\ \/ taskConfig' = [whole |-> TRUE, excluded |-> taskConfig.excluded \cup {t}]
       \/ UNCHANGED taskConfig
    /\ job' = Handled(k, t)
    /\ UNCHANGED <<forum, posts, scan, free, cancelled, bounds, owed, hasty>>

\* A goroutine that finds the context done leaves the rest of its chunk; one that
\* looked before goes on with its thread.
LeaveThread(k, t) ==
    /\ Handling(k, t)
    /\ Done(k)
    /\ job' = Handled(k, t)
    /\ UNCHANGED <<forum, posts, config, scan, free, cancelled, bounds, owed>>
-----------------------------------------------------------------------------
(* The forum, shutdown and the end of the process                          *)

Changed(t) ==
    /\ changes < MaxChanges
    /\ changes' = changes + 1
    /\ owed' = [k \in Scans |-> owed[k] \ {t}]
    /\ UNCHANGED <<posts, config, scan, job, free, cancelled, crashes>>

Archive(t) ==
    /\ thread[t] = "active"
    /\ thread' = [thread EXCEPT ![t] = "archived"]
    /\ archivedAt' = [archivedAt EXCEPT ![t] = 1 + Max({archivedAt[u] : u \in Threads})]
    /\ Changed(t)
    /\ UNCHANGED <<locked, headless, young>>

\* A new thread, or a message in an archived one.
Activate(t) ==
    /\ thread[t] \in {"none", "archived"}
    /\ thread' = [thread EXCEPT ![t] = "active"]
    /\ young' = IF thread[t] = "none" THEN young \cup {t} ELSE young
    /\ Changed(t)
    /\ UNCHANGED <<archivedAt, locked, headless>>

\* Its first message can be read now.
Appear(t) ==
    /\ t \in young
    /\ young' = young \ {t}
    /\ UNCHANGED <<thread, archivedAt, locked, headless, posts, config, scan, job, free,
                   cancelled, bounds, owed>>

Lock(t) ==
    /\ thread[t] \in {"active", "archived"}
    /\ locked' = locked \cup {t}
    /\ Changed(t)
    /\ UNCHANGED <<thread, archivedAt, headless, young>>

\* The first message is deleted, alone or with its thread.
Behead(t) ==
    /\ thread[t] \in {"active", "archived"}
    /\ headless' = headless \cup {t}
    /\ thread' \in {thread, [thread EXCEPT ![t] = "deleted"]}
    /\ Changed(t)
    /\ UNCHANGED <<archivedAt, locked, young>>

Shutdown ==
    /\ ~ cancelled
    /\ cancelled' = TRUE
    /\ UNCHANGED <<forum, posts, config, scan, job, free, bounds, owed>>

\* The process ends, after a shutdown or without, and starts again.
Crash ==
    /\ crashes < MaxCrashes
    /\ crashes' = crashes + 1
    /\ writer' = {}
    /\ scan' = [k \in Scans |-> Off]
    /\ job' = [k \in Scans |-> [c \in Channels |-> NoTask]]
    /\ free' = [k \in Scans |-> 0]
    /\ cancelled' = FALSE
    /\ owed' = [k \in Scans |-> {}]
    /\ UNCHANGED <<forum, posts, taskConfig, changes, hasty>>

Worker(k) == \E c \in Channels :
    TakeTask(k, c) \/ ListActive(k, c) \/ ListArchived(k, c) \/ FinishTask(k, c)

ProcessThread(k) == \E t \in Threads :
    \/ SkipThread(k, t)
    \/ SavePost(k, t)
    \/ BeginExclusion(k, t)
    \/ EndExclusion(k, t)
    \/ LeaveThread(k, t)

Next ==
    \/ \E k \in Scans, mode \in {"full", "active"} : Scan(k, mode)
    \/ \E k \in Scans : Worker(k) \/ ProcessThread(k) \/ EndScan(k)
    \/ \E t \in Threads : Archive(t) \/ Activate(t) \/ Appear(t) \/ Lock(t) \/ Behead(t)
    \/ Shutdown
    \/ Crash

Spec == Init /\ [][Next]_vars

\* Goroutines that can run do run, and every call returns, be it with an error.
FairSpec == Spec /\ \A k \in Scans : WF_vars(Worker(k) \/ ProcessThread(k) \/ EndScan(k))
-----------------------------------------------------------------------------
\* A scan that is not cancelled saves every thread it owes: one that stayed as it was
\* since the scan began, that was not excluded nor just created then, and in whose
\* channel no call of this scan failed.  Neither another scan, nor a thread that is archived, unarchived,
\* locked or deleted between two pages makes it miss one, as long as there is a worker
\* for every channel.
ScanSavesWhatStayed ==
    [][ \A k \in Scans :
          EndScan(k) /\ ~ Done(k) /\ Cardinality(Channels) <= MaxWorkers =>
            owed[k] \subseteq posts ]_vars

\* A thread is excluded only for a 404 of its own: its first message is gone for good, or
\* was not there yet when a scan met the thread.  A failed call, a cancelled scan, a write
\* of another scan or one cut short by the end of the process excludes no other thread.
ExcludedWereNotFound == taskConfig.excluded \subseteq headless \cup hasty

\* Only threads whose first message is gone for good are excluded.  A 404 does not say so,
\* as the handler of new threads knows.
ExcludedAreHeadless == taskConfig.excluded \subseteq headless

\* Every scan ends, the pages of every channel run out, also when threads are archived
\* behind it, and also when workers are lost to failed calls.
ScanEnds == \A k \in Scans : scan[k] # Off ~> scan[k] = Off
=============================================================================
