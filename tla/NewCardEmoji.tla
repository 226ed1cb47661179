---------------------------- MODULE NewCardEmoji ----------------------------
(***************************************************************************)
(* The new card emoji system (tasks/new_card_emoji): a forum post whose    *)
(* thread has been archived gets an emoji 72 hours after its creation, and *)
(* if that did not happen another chance after 144 hours.  Timers put      *)
(* items into a queue, a ticker starts a goroutine for one item at a time, *)
(* and what was sent is kept in memory and in a JSON state file from which *)
(* a restart rebuilds the timers.  Timers, item goroutines, the cleanup    *)
(* and the THREAD_CREATE handlers interleave; Discord and file calls may   *)
(* fail; the process may end between any two steps, a shutdown included,   *)
(* for nothing waits for these goroutines.                                 *)
(***************************************************************************)
EXTENDS Naturals, Sequences

CONSTANTS
    Posts,          \* threads ever created
    Processors,     \* goroutines that may run processNextItem
    First,          \* 72 hours
    Second,         \* 144 hours
    Retention,      \* 150 hours, the age at which a record is cleaned up
    MaxHour,        \* bound: hours
    MaxCrashes      \* bound: ends of the process

ASSUME HoursAssumption ==
    /\ First \in Nat /\ Second \in Nat /\ Retention \in Nat
    /\ First < Second /\ Second < Retention

ASSUME BoundAssumption == MaxHour \in Nat /\ MaxCrashes \in Nat

VARIABLES
    hour,
    thread,     \* thread[p]: "archived" is archived and not locked, "other"
                \* is active or locked: no thread to send an emoji to
    born,       \* born[p]: Post.Timestamp
    rows,       \* the posts in the guild's database
    phase,      \* how far startNewCardEmojiSystem has come
    creating,   \* the posts whose CreateTimersForNewPost has not run yet
    records,    \* globalState.Records: post -> SentRecord
    file,       \* data/new_card_emoji_state.json
    armed,      \* the timers of time.AfterFunc, and handlers started at once
    firing,     \* timer handlers that have decided to add their item
    queue,      \* globalQueue.items
    proc,       \* proc[w]: the item goroutine w works on
    cleaning,   \* a cleanup has deleted records and has yet to save the state
    crashes,
    sent,       \* history: sent[p]: the emojis p has got
    excused,    \* history: posts whose last chance was tried in vain, or lost
    unwatched   \* history: posts this process saved without starting their timers

discord == <<thread, sent>>
posts == <<born, rows, unwatched>>
state == <<records, file>>
timers == <<armed, firing>>
vars == <<hour, thread, born, rows, phase, creating, records, file, armed, firing,
          queue, proc, cleaning, crashes, sent, excused, unwatched>>
-----------------------------------------------------------------------------
Trigger == {"72h", "144h"}

\* A SentRecord: Sent72h and Sent144h as the set of triggers marked as sent.
SentRecord == [createdAt : Nat, sent : SUBSET Trigger]

IsRecords(f) == DOMAIN f \subseteq Posts /\ f \in [DOMAIN f -> SentRecord]
NoRecords == [p \in {} |-> p]

\* A state file that was not written to its end cannot be parsed.
WholeFile(f) == [whole |-> TRUE, records |-> f]
PartialFile == [whole |-> FALSE, records |-> NoRecords]

\* Two timers of a post and a trigger can exist: one made for the THREAD_CREATE
\* event, one by the rebuild of a startup that overtook the event.
Timer == [post : Posts, trigger : Trigger, at : Nat, origin : {"create", "rebuild"}]

QueueItem == [post : Posts, trigger : Trigger]
Item(t) == [post |-> t.post, trigger |-> t.trigger]

Idle == [pc |-> "idle"]
Job == [pc : {"check", "unarchive", "send", "update", "save"}, item : QueueItem]

TypeOK ==
    /\ hour \in 0..MaxHour
    /\ thread \in [Posts -> {"none", "other", "archived", "deleted"}]
    /\ born \in [Posts -> Nat]
    /\ rows \in SUBSET Posts
    /\ phase \in {"down", "starting", "loaded", "on", "disabled"}
    /\ creating \in SUBSET Posts
    /\ IsRecords(records)
    /\ file.whole \in BOOLEAN /\ IsRecords(file.records)
    /\ armed \in SUBSET Timer
    /\ firing \in SUBSET Timer
    /\ queue \in Seq(QueueItem)
    /\ proc \in [Processors -> Job \cup {Idle}]
    /\ cleaning \in BOOLEAN
    /\ crashes \in 0..MaxCrashes
    /\ sent \in [Posts -> Nat]
    /\ excused \in SUBSET Posts
    /\ unwatched \in SUBSET Posts

Init ==
    /\ hour = 0
    /\ thread = [p \in Posts |-> "none"]
    /\ born = [p \in Posts |-> 0]
    /\ rows = {}
    /\ phase = "down"
    /\ creating = {}
    /\ records = NoRecords
    /\ file = WholeFile(NoRecords)
    /\ armed = {}
    /\ firing = {}
    /\ queue = <<>>
    /\ proc = [w \in Processors |-> Idle]
    /\ cleaning = FALSE
    /\ crashes = 0
    /\ sent = [p \in Posts |-> 0]
    /\ excused = {}
    /\ unwatched = {}
-----------------------------------------------------------------------------
(* TimerState                                                              *)

IsSent(p, trigger) == p \in DOMAIN records /\ trigger \in records[p].sent

WithRecord(p, r) == [q \in DOMAIN records \cup {p} |-> IF q = p THEN r ELSE records[q]]

UpdateSentUnchecked(p, trigger) ==
    records' = WithRecord(p, [sent |-> {trigger}])

\* Nothing is marked when the record is gone.
UpdateSent(p, trigger) ==
    IF p \in DOMAIN records
    THEN records' = [records EXCEPT ![p].sent = @ \cup {trigger}]
    ELSE UNCHANGED records

\* os.WriteFile truncates the file first: it may fail with the old file, or with
\* a part of the new one.
SaveState(f) == file' \in {WholeFile(f), file, PartialFile}
-----------------------------------------------------------------------------
(* Startup                                                                 *)

\* The handlers run as soon as the session is open, before the queue exists.
Restart ==
    /\ phase = "down"
    /\ phase' = "starting"
    /\ UNCHANGED <<hour, discord, posts, creating, state, timers, queue, proc,
                   cleaning, crashes, excused>>

\* InitQueue: when the state cannot be loaded the system stays off in this run.
InitQueue ==
    /\ phase = "starting"
    /\ \/ /\ file.whole
          /\ records' = file.records
          /\ phase' = "loaded"
          /\ UNCHANGED excused
       \/ /\ phase' = "disabled"
          /\ excused' = excused \cup rows
          /\ UNCHANGED records
    /\ UNCHANGED <<hour, discord, posts, creating, file, timers, queue, proc,
                   cleaning, crashes>>

\* getRecentPosts(144)
GetRecentPosts == {p \in rows : hour - born[p] <= Second}

Later(a, b) == IF a < b THEN b ELSE a

Due(p, trigger) == born[p] + (IF trigger = "72h" THEN First ELSE Second)

\* 72h unless it was sent, and then 144h unless that was sent.
Wanted(r) == IF "72h" \in r.sent THEN {} ELSE {"72h"} \cup (Trigger \ r.sent)

Rebuilt(p, trigger, at) == [post |-> p, trigger |-> trigger, at |-> at, origin |-> "rebuild"]

RebuiltTimersAtOnce(p, r) == {Rebuilt(p, trigger, hour) : trigger \in Wanted(r)}

RebuiltTimersInFuture(p, r) ==
    {Rebuilt(p, trigger, Due(p, trigger)) : trigger \in {t \in Wanted(r) : Due(p, t) > hour}}

\* rebuildTimerForPost: the timers it starts for a post with record r.  One that
\* is overdue runs at once.
RebuiltTimers(p, r) ==
    {Rebuilt(p, trigger, Later(Due(p, trigger), hour)) : trigger \in Wanted(r)}

\* The records after the rebuild, of which the new ones are not saved.
RecordFor(p) == IF p \in DOMAIN records THEN records[p] ELSE [createdAt |-> born[p], sent |-> {}]

\* A guild or table whose query fails is passed over.
RebuildTimersOnStartup ==
    /\ phase = "loaded"
    /\ phase' = "on"
    /\ \E read \in SUBSET GetRecentPosts :
          /\ records' = [p \in DOMAIN records \cup read |-> RecordFor(p)]
          /\ armed' = armed \cup UNION {RebuiltTimers(p, RecordFor(p)) : p \in read}
          /\ excused' = excused \cup (rows \ (read \cup creating))
    /\ unwatched' = {}
    /\ UNCHANGED <<hour, discord, born, rows, creating, file, firing, queue, proc,
                   cleaning, crashes>>
-----------------------------------------------------------------------------
(* THREAD_CREATE and THREAD_DELETE                                         *)

\* HandleThreadCreate saves the post and starts CreateTimersForNewPost, if the guild
\* has an entry in the roll card config: the other configs it needs are files of their
\* own, and without that entry the post is in the database and has no timers before
\* the next startup.  The guild is not modelled: any post may be of either kind.  A
\* post whose first message cannot be read, or that cannot be saved, is left alone.
\* Bound: the post becomes old enough for both timers.
HandleThreadCreate(p) ==
    /\ phase # "down"
    /\ thread[p] = "none"
    /\ hour + Second <= MaxHour
    /\ thread' = [thread EXCEPT ![p] = "other"]
    /\ born' = [born EXCEPT ![p] = hour]
    /\ \/ /\ rows' = rows \cup {p}
          /\ creating' = creating \cup {p}
          /\ UNCHANGED <<excused, unwatched>>
       \/ /\ rows' = rows \cup {p}
          /\ unwatched' = unwatched \cup {p}
          /\ UNCHANGED <<creating, excused>>
       \/ /\ excused' = excused \cup {p}
          /\ UNCHANGED <<rows, creating, unwatched>>
    /\ UNCHANGED <<hour, phase, state, timers, queue, proc, cleaning, crashes, sent>>

NewTimers(p) ==
    {[post |-> p, trigger |-> "72h", at |-> hour + First, origin |-> "create"],
     [post |-> p, trigger |-> "144h", at |-> hour + Second, origin |-> "create"]}

\* Without a state, or for a post that has got both, there is nothing to do;
\* a record that exists is replaced by a fresh one.
CreateTimersForNewPost(p) ==
    /\ p \in creating
    /\ creating' = creating \ {p}
    /\ \/ /\ phase \in {"starting", "disabled"}
          /\ excused' = IF phase = "disabled" THEN excused \cup {p} ELSE excused
          /\ UNCHANGED <<state, armed>>
       \/ /\ phase \in {"loaded", "on"}
          /\ IsSent(p, "72h") /\ IsSent(p, "144h")
          /\ UNCHANGED <<state, armed, excused>>
       \/ /\ phase \in {"loaded", "on"}
          /\ ~ (IsSent(p, "72h") /\ IsSent(p, "144h"))
          /\ records' = WithRecord(p, [createdAt |-> born[p], sent |-> {}])
          /\ SaveState(records')
          /\ armed' = armed \cup NewTimers(p)
          /\ UNCHANGED excused
    /\ UNCHANGED <<hour, discord, posts, phase, firing, queue, proc, cleaning, crashes>>

\* HandleThreadDelete drops the row, if the bot runs and its configuration and
\* database agree; the timers stay.
HandleThreadDelete(p) ==
    /\ thread[p] \notin {"none", "deleted"}
    /\ thread' = [thread EXCEPT ![p] = "deleted"]
    /\ \/ UNCHANGED rows
       \/ phase # "down" /\ rows' = rows \ {p}
    /\ excused' = excused \cup {p}
    /\ UNCHANGED <<hour, born, unwatched, phase, creating, state, timers, queue, proc, cleaning,
                   crashes, sent>>
-----------------------------------------------------------------------------
(* Timers and queue                                                        *)

\* The sent marks that stop a timer handler: 72h only its own, 144h both.
StopsAt(trigger) == IF trigger = "72h" THEN {"72h"} ELSE Trigger

\* handle72hTimer and handle144hTimer up to the check of the record.
HandleTimer(t) ==
    /\ t \in armed
    /\ t.at <= hour
    /\ armed' = armed \ {t}
    /\ firing' = IF \E s \in StopsAt(t.trigger) : IsSent(t.post, s)
                 THEN firing ELSE firing \cup {t}
    /\ UNCHANGED <<hour, discord, posts, phase, creating, state, queue, proc, cleaning,
                   crashes, excused>>

Queued(p) == \E i \in DOMAIN queue : queue[i].post = p

\* AddToQueue: a post is in the queue once, whatever the trigger.
Enqueue(t) ==
    /\ t \in firing
    /\ firing' = firing \ {t}
    /\ queue' = IF Queued(t.post) THEN queue ELSE Append(queue, Item(t))
    /\ UNCHANGED <<hour, discord, posts, phase, creating, state, armed, proc, cleaning,
                   crashes, excused>>

\* A tick of the queue starts processNextItem in a goroutine of its own.
Dequeue(w) ==
    /\ phase = "on"
    /\ proc[w].pc = "idle"
    /\ queue # <<>>
    /\ proc' = [proc EXCEPT ![w] = [pc |-> "check", item |-> Head(queue)]]
    /\ queue' = Tail(queue)
    /\ UNCHANGED <<hour, discord, posts, phase, creating, state, timers, cleaning,
                   crashes, excused>>
-----------------------------------------------------------------------------
(* processItem                                                             *)

\* The item is dropped.  A post that misses its 72h emoji has the 144h timer
\* left, unless it is that old already.
Drop(w) ==
    LET item == proc[w].item
        last == item.trigger = "144h" \/ hour >= born[item.post] + Second
    IN  /\ proc' = [proc EXCEPT ![w] = Idle]
        /\ excused' = IF last THEN excused \cup {item.post} ELSE excused

Proceed(w, pc) == proc' = [proc EXCEPT ![w].pc = pc] /\ UNCHANGED excused

\* Only an archived, unlocked thread is processed; the call fails if it is gone.
CheckThreadStatus(w) ==
    /\ proc[w].pc = "check"
    /\ \/ thread[proc[w].item.post] = "archived" /\ Proceed(w, "unarchive")
       \/ Drop(w)                    \* not archived, locked, or the call failed
    /\ UNCHANGED <<hour, discord, posts, phase, creating, state, timers, queue,
                   cleaning, crashes>>

UnarchiveThread(w) ==
    /\ proc[w].pc = "unarchive"
    /\ LET p == proc[w].item.post
       IN  \/ /\ thread[p] # "deleted"
              /\ thread' = [thread EXCEPT ![p] = "other"]
              /\ Proceed(w, "send")
           \/ Drop(w) /\ UNCHANGED thread
    /\ UNCHANGED <<hour, posts, phase, creating, state, timers, queue, cleaning,
                   crashes, sent>>

\* Two seconds later; the thread may have changed meanwhile.
SendEmojiToThread(w) ==
    /\ proc[w].pc = "send"
    /\ LET p == proc[w].item.post
       IN  \/ /\ thread[p] # "deleted"
              /\ sent' = [sent EXCEPT ![p] = @ + 1]
              /\ Proceed(w, "update")
           \/ Drop(w) /\ UNCHANGED sent
    /\ UNCHANGED <<hour, thread, posts, phase, creating, state, timers, queue,
                   cleaning, crashes>>

MarkSent(w) ==
    /\ proc[w].pc = "update"
    /\ UpdateSent(proc[w].item.post, proc[w].item.trigger)
    /\ Proceed(w, "save")
    /\ UNCHANGED <<hour, discord, posts, phase, creating, file, timers, queue,
                   cleaning, crashes>>

SaveSent(w) ==
    /\ proc[w].pc = "save"
    /\ SaveState(records)
    /\ proc' = [proc EXCEPT ![w] = Idle]
    /\ UNCHANGED <<hour, discord, posts, phase, creating, records, timers, queue,
                   cleaning, crashes, excused>>
-----------------------------------------------------------------------------
(* Cleanup, the environment and the end of the process                     *)

Old == {p \in DOMAIN records : records[p].createdAt + Retention < hour}

CleanupOldRecords ==
    /\ phase = "on"
    /\ Old # {}
    /\ records' = [p \in DOMAIN records \ Old |-> records[p]]
    /\ cleaning' = TRUE
    /\ UNCHANGED <<hour, discord, posts, phase, creating, file, timers, queue, proc,
                   crashes, excused>>

SaveAfterCleanup ==
    /\ cleaning
    /\ cleaning' = FALSE
    /\ SaveState(records)
    /\ UNCHANGED <<hour, discord, posts, phase, creating, records, timers, queue, proc,
                   crashes, excused>>

\* Members write, Discord archives, moderators lock and unlock.
ThreadChanges(p) ==
    /\ thread[p] \in {"other", "archived"}
    /\ thread' = [thread EXCEPT ![p] = IF @ = "other" THEN "archived" ELSE "other"]
    /\ UNCHANGED <<hour, posts, phase, creating, state, timers, queue, proc, cleaning,
                   crashes, sent, excused>>

\* Bound: the goroutine of a THREAD_CREATE starts within the hour.
Tick ==
    /\ hour < MaxHour
    /\ creating = {}
    /\ hour' = hour + 1
    /\ UNCHANGED <<discord, posts, phase, creating, state, timers, queue, proc,
                   cleaning, crashes, excused>>

\* A file that is being written when the process ends is left truncated.
Crash ==
    /\ phase # "down"
    /\ crashes < MaxCrashes
    /\ crashes' = crashes + 1
    /\ phase' = "down"
    /\ file' \in {file} \cup
          (IF cleaning \/ \E w \in Processors : proc[w].pc = "save" THEN {PartialFile} ELSE {})
    /\ creating' = {}
    /\ records' = NoRecords
    /\ armed' = {}
    /\ firing' = {}
    /\ queue' = <<>>
    /\ proc' = [w \in Processors |-> Idle]
    /\ cleaning' = FALSE
    /\ unwatched' = {}
    /\ UNCHANGED <<hour, discord, born, rows, excused>>

ProcessItem(w) ==
    \/ CheckThreadStatus(w)
    \/ UnarchiveThread(w)
    \/ SendEmojiToThread(w)
    \/ MarkSent(w)
    \/ SaveSent(w)

Next ==
    \/ Restart
    \/ InitQueue
    \/ RebuildTimersOnStartup
    \/ \E p \in Posts :
          \/ HandleThreadCreate(p)
          \/ CreateTimersForNewPost(p)
          \/ HandleThreadDelete(p)
          \/ ThreadChanges(p)
    \/ \E t \in armed : HandleTimer(t)
    \/ \E t \in firing : Enqueue(t)
    \/ \E w \in Processors : Dequeue(w) \/ ProcessItem(w)
    \/ CleanupOldRecords
    \/ SaveAfterCleanup
    \/ Tick
    \/ Crash

Spec == Init /\ [][Next]_vars

\* Goroutines that can run do run, the queue ticker ticks, and the operator starts
\* a bot that died again.  Nothing is assumed of threads and of crashes, nor that
\* any call succeeds.
FairSpec ==
    /\ Spec
    /\ WF_vars(Tick)
    /\ WF_vars(Restart) /\ WF_vars(InitQueue) /\ WF_vars(RebuildTimersOnStartup)
    /\ \A p \in Posts :
          /\ WF_vars(CreateTimersForNewPost(p))
          /\ WF_vars(\E t \in armed : t.post = p /\ HandleTimer(t))
          /\ WF_vars(\E t \in firing : t.post = p /\ Enqueue(t))
    /\ \A w \in Processors : WF_vars(ProcessItem(w))
    /\ WF_vars(\E w \in Processors : Dequeue(w))
-----------------------------------------------------------------------------
\* What still keeps the post in view: its timers, a handler, the queue, an item
\* being processed, or a rebuild to come.
Tracked(p) ==
    \/ p \in creating
    \/ phase \in {"down", "starting", "loaded"} /\ p \in rows
    \/ \E t \in armed \cup firing : t.post = p
    \/ Queued(p)
    \/ \E w \in Processors : proc[w].pc \in {"check", "unarchive", "send"} /\ proc[w].item.post = p

\* A post is never dropped silently: until it gets an emoji something keeps it in
\* view, through restarts and across the queue's deduplication, and one that
\* misses its 72h emoji keeps its 144h chance.  Excused are the posts whose last
\* chance found the thread open, locked or gone or a call failing, the posts that
\* were older than 144 hours or not read at a startup, the posts of a run whose
\* state file did not load, deleted threads, and posts that were never saved.  A
\* post saved for a guild that draws no cards is unwatched, until the next startup
\* picks it up like any other.
NoPostForgotten ==
    \A p \in Posts : thread[p] # "none" =>
        sent[p] > 0 \/ p \in excused \/ p \in unwatched \/ Tracked(p)

\* No post gets an emoji in its first 72 hours, even when its timers are rebuilt.
NoEarlyEmoji ==
    [][ \A p \in Posts : sent'[p] # sent[p] => hour >= born[p] + First ]_vars

\* Every post gets an emoji in the end or is excused, and so is a post saved without
\* timers once the process has been started again.
EveryPostSettled ==
    \A p \in Posts : thread[p] # "none" ~> sent[p] > 0 \/ p \in excused \/ p \in unwatched

\* A post gets at most one emoji: the second trigger is for posts that missed the
\* first.
AtMostOneEmoji ==
    \A p \in Posts : sent[p] <= 1
=============================================================================
