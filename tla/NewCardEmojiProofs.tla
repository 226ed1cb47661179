------------------------- MODULE NewCardEmojiProofs -------------------------
(***************************************************************************)
(* Safety of the new card emoji system for any posts, processors, hours    *)
(* and ends of the process: no post is forgotten, and none gets an emoji   *)
(* before its time.                                                        *)
(***************************************************************************)
EXTENDS NewCardEmoji, SequenceTheorems, TLAPS

\* The post of a timer that has fired, of the queue, or of an item in work.
Fired(p) ==
    \/ \E t \in firing : t.post = p
    \/ \E i \in 1..Len(queue) : queue[i].post = p
    \/ \E w \in Processors : proc[w].pc # "idle" /\ proc[w].item.post = p

InHand(p) == Fired(p) \/ \E t \in armed : t.post = p

\* What refers to a post refers to one that was created, and a created one is in the database
\* or excused.
PostsExist ==
    /\ \A p \in Posts : p \in rows \cup creating \/ InHand(p) => thread[p] # "none"
    /\ \A p \in Posts : thread[p] # "none" => p \in rows \cup excused
    /\ \A p \in Posts : born[p] <= hour

\* A mark in a record, in memory or in the file, is there for an emoji that was sent.
Marked(f) == \A p \in DOMAIN f : f[p].sent # {} => sent[p] > 0
MarksAreTrue ==
    /\ Marked(records)
    /\ Marked(file.records)
    /\ \A w \in Processors : proc[w].pc \in {"update", "save"} => sent[proc[w].item.post] > 0

\* Timers are not set too early.
InTime ==
    /\ \A t \in armed : t.at >= Due(t.post, t.trigger)
    /\ \A p \in Posts : Fired(p) => hour >= born[p] + First

\* A post in hand that is not settled has its second timer running until 144 hours are over.
SecondChance(p) ==
    \/ sent[p] > 0
    \/ p \in excused
    \/ hour >= born[p] + Second
    \/ \E t \in armed : t.post = p /\ t.trigger = "144h"
ChancesKept == \A p \in Posts : InHand(p) => SecondChance(p)

IInv == TypeOK /\ PostsExist /\ MarksAreTrue /\ InTime /\ ChancesKept /\ NoPostForgotten
-----------------------------------------------------------------------------
(* Types                                                                   *)

\* Init sets every variable to a value of its type.
LEMMA InitTypes == Init => TypeOK
<1> SUFFICES ASSUME Init PROVE TypeOK
  OBVIOUS
<1>1. 0 \in 0..MaxHour /\ 0 \in 0..MaxCrashes
  BY BoundAssumption
<1>2. IsRecords(NoRecords)
  BY DEF IsRecords, NoRecords
<1>3. queue \in Seq(QueueItem)
  BY DEF Init
<1>4. file.whole \in BOOLEAN /\ file.records = NoRecords
  BY DEF Init, WholeFile
<1>5. cleaning \in BOOLEAN
  BY DEF Init
<1>6. proc \in [Processors -> Job \cup {Idle}]
  BY DEF Init
<1> QED BY <1>1, <1>2, <1>3, <1>4, <1>5, <1>6 DEF Init, TypeOK

\* Records stay records when one is put in or some are taken out.
LEMMA RecordsTypes ==
    ASSUME NEW f, IsRecords(f)
    PROVE  /\ \A p \in Posts, r \in SentRecord :
                 IsRecords([q \in DOMAIN f \cup {p} |-> IF q = p THEN r ELSE f[q]])
           /\ \A S : IsRecords([q \in DOMAIN f \ S |-> f[q]])
BY DEF IsRecords

\* The state file holds records, whole or not, after any outcome of SaveState.
LEMMA SaveTypes ==
    ASSUME TypeOK, NEW f, IsRecords(f), SaveState(f)
    PROVE  file'.whole \in BOOLEAN /\ IsRecords(file'.records)
<1>1. IsRecords(NoRecords)
  BY DEF IsRecords, NoRecords
<1>2. CASE file' = WholeFile(f)
  BY <1>2 DEF WholeFile
<1>3. CASE file' = file
  BY <1>3 DEF TypeOK
<1>4. CASE file' = PartialFile
  BY <1>1, <1>4 DEF PartialFile
<1> QED BY <1>2, <1>3, <1>4 DEF SaveState

\* Restart and InitQueue.
LEMMA StartTypeOK == TypeOK /\ (Restart \/ InitQueue) => TypeOK'
<1> SUFFICES ASSUME TypeOK, Restart \/ InitQueue PROVE TypeOK'
  OBVIOUS
<1> USE DEF discord, posts, state, timers
<1>1. CASE Restart
  BY <1>1 DEF Restart, TypeOK
<1>2. CASE InitQueue
  <2>1. IsRecords(records') /\ phase' \in {"loaded", "disabled"} /\ excused' \in SUBSET Posts
    BY <1>2 DEF InitQueue, TypeOK
  <2> QED BY <1>2, <2>1 DEF InitQueue, TypeOK
<1> QED BY <1>1, <1>2

\* The times of timers are hours.
LEMMA DueTypes ==
    ASSUME TypeOK, NEW p \in Posts, NEW trigger \in Trigger
    PROVE  Due(p, trigger) \in Nat /\ Later(Due(p, trigger), hour) \in Nat
BY HoursAssumption DEF TypeOK, Due, Later, Trigger

\* The timers a rebuild starts are timers of its post.
LEMMA RebuiltTypes ==
    ASSUME TypeOK, NEW p \in Posts, NEW r
    PROVE  /\ RebuiltTimers(p, r) \subseteq Timer
           /\ \A t \in RebuiltTimers(p, r) : t.post = p /\ t.trigger \in Wanted(r)
<1> SUFFICES ASSUME NEW t \in RebuiltTimers(p, r)
             PROVE  t \in Timer /\ t.post = p /\ t.trigger \in Wanted(r)
  OBVIOUS
<1>1. PICK trigger \in Wanted(r) : t = Rebuilt(p, trigger, Later(Due(p, trigger), hour))
  BY DEF RebuiltTimers
<1>2. trigger \in Trigger
  BY DEF Wanted, Trigger
<1>3. Later(Due(p, trigger), hour) \in Nat
  BY <1>2, DueTypes
<1> QED BY <1>1, <1>2, <1>3 DEF Rebuilt, Timer

\* A post that is read has a record after the rebuild.
LEMMA RecordForType ==
    ASSUME TypeOK, NEW p \in Posts
    PROVE  RecordFor(p) \in SentRecord
BY DEF TypeOK, IsRecords, RecordFor, SentRecord

\* RebuildTimersOnStartup
LEMMA RebuildTypeOK == TypeOK /\ RebuildTimersOnStartup => TypeOK'
<1> SUFFICES ASSUME TypeOK, RebuildTimersOnStartup PROVE TypeOK'
  OBVIOUS
<1> USE DEF discord, posts, state, timers
<1>1. PICK read \in SUBSET GetRecentPosts :
        /\ records' = [p \in DOMAIN records \cup read |-> RecordFor(p)]
        /\ armed' = armed \cup UNION {RebuiltTimers(p, RecordFor(p)) : p \in read}
        /\ excused' = excused \cup (rows \ (read \cup creating))
  BY DEF RebuildTimersOnStartup
<1>2. read \subseteq Posts
  BY <1>1 DEF GetRecentPosts, TypeOK
<1>3. IsRecords(records')
  <2>1. DOMAIN records \cup read \subseteq Posts
    BY <1>2 DEF TypeOK, IsRecords
  <2>2. \A p \in DOMAIN records \cup read : RecordFor(p) \in SentRecord
    BY <2>1, RecordForType
  <2> QED BY <1>1, <2>1, <2>2 DEF IsRecords
<1>4. armed' \in SUBSET Timer
  BY <1>1, <1>2, RebuiltTypes DEF TypeOK
<1>5. excused' \in SUBSET Posts
  BY <1>1 DEF TypeOK
<1> QED BY <1>3, <1>4, <1>5 DEF RebuildTimersOnStartup, TypeOK

\* The THREAD_CREATE and THREAD_DELETE handlers.
LEMMA ThreadTypeOK ==
    ASSUME TypeOK, NEW p \in Posts,
           HandleThreadCreate(p) \/ CreateTimersForNewPost(p) \/ HandleThreadDelete(p) \/ ThreadChanges(p)
    PROVE  TypeOK'
<1> USE DEF discord, posts, state, timers
<1>1. CASE HandleThreadCreate(p)
  BY <1>1 DEF HandleThreadCreate, TypeOK
<1>2. CASE CreateTimersForNewPost(p)
  <2>1. excused' \in SUBSET Posts /\ creating' \in SUBSET Posts
    BY <1>2, Zenon DEF CreateTimersForNewPost, TypeOK
  <2>2. /\ IsRecords(records')
        /\ file'.whole \in BOOLEAN /\ IsRecords(file'.records)
        /\ armed' \in SUBSET Timer
    <3>1. CASE UNCHANGED <<records, file, armed>>
      BY <3>1 DEF TypeOK
    <3>2. CASE /\ records' = WithRecord(p, [createdAt |-> born[p], sent |-> {}])
               /\ SaveState(records')
               /\ armed' = armed \cup NewTimers(p)
      <4>1. [createdAt |-> born[p], sent |-> {}] \in SentRecord
        BY DEF TypeOK, SentRecord
      <4>2. IsRecords(records')
        BY <3>2, <4>1, RecordsTypes, ZenonT(40) DEF TypeOK, WithRecord
      <4>3. hour + First \in Nat /\ hour + Second \in Nat
        BY HoursAssumption DEF TypeOK
      <4>4. armed' \in SUBSET Timer
        BY <3>2, <4>3 DEF TypeOK, NewTimers, Timer, Trigger
      <4> QED BY <3>2, <4>2, <4>4, SaveTypes
    <3> QED BY <1>2, <3>1, <3>2 DEF CreateTimersForNewPost
  <2> QED BY <1>2, <2>1, <2>2 DEF CreateTimersForNewPost, TypeOK
<1>3. CASE HandleThreadDelete(p)
  BY <1>3 DEF HandleThreadDelete, TypeOK
<1>4. CASE ThreadChanges(p)
  BY <1>4 DEF ThreadChanges, TypeOK
<1> QED BY <1>1, <1>2, <1>3, <1>4

\* Timers and the queue.
LEMMA QueueTypeOK ==
    ASSUME TypeOK,
           \/ \E t \in armed : HandleTimer(t)
           \/ \E t \in firing : Enqueue(t)
           \/ \E w \in Processors : Dequeue(w)
    PROVE  TypeOK'
<1> USE DEF discord, posts, state, timers
<1>1. ASSUME NEW t \in armed, HandleTimer(t) PROVE TypeOK'
  BY <1>1 DEF HandleTimer, TypeOK
<1>2. ASSUME NEW t \in firing, Enqueue(t) PROVE TypeOK'
  <2>1. Item(t) \in QueueItem
    BY DEF TypeOK, Timer, Item, QueueItem
  <2>2. queue' \in Seq(QueueItem)
    BY <1>2, <2>1 DEF Enqueue, TypeOK
  <2> QED BY <1>2, <2>2 DEF Enqueue, TypeOK
<1>3. ASSUME NEW w \in Processors, Dequeue(w) PROVE TypeOK'
  <2>1. Head(queue) \in QueueItem /\ Tail(queue) \in Seq(QueueItem)
    BY <1>3, HeadTailProperties DEF Dequeue, TypeOK
  <2>2. proc' \in [Processors -> Job \cup {Idle}]
    BY <1>3, <2>1 DEF Dequeue, TypeOK, Job
  <2> QED BY <1>3, <2>1, <2>2 DEF Dequeue, TypeOK
<1> QED BY <1>1, <1>2, <1>3

\* The item of a goroutine that is at work.
LEMMA JobType ==
    ASSUME TypeOK, NEW w \in Processors, proc[w].pc # "idle"
    PROVE  proc[w] \in Job /\ proc[w].item.post \in Posts /\ proc[w].item.trigger \in Trigger
BY DEF TypeOK, Job, Idle, QueueItem

\* A goroutine that drops its item is idle, and one that proceeds keeps it.
LEMMA StepTypes ==
    ASSUME TypeOK, NEW w \in Processors, proc[w].pc # "idle",
           \/ Drop(w)
           \/ Proceed(w, "unarchive") \/ Proceed(w, "send") \/ Proceed(w, "update") \/ Proceed(w, "save")
    PROVE  proc' \in [Processors -> Job \cup {Idle}] /\ excused' \in SUBSET Posts
<1>1. CASE Drop(w)
  BY <1>1, JobType DEF Drop, TypeOK
<1>2. ASSUME NEW pc \in {"unarchive", "send", "update", "save"}, Proceed(w, pc)
      PROVE  proc' \in [Processors -> Job \cup {Idle}] /\ excused' \in SUBSET Posts
  <2>1. [proc[w] EXCEPT !.pc = pc] \in Job
    BY JobType DEF Job
  <2> QED BY <1>2, <2>1 DEF Proceed, TypeOK
<1> QED BY <1>1, <1>2

\* processItem
LEMMA ProcessTypeOK ==
    ASSUME TypeOK, NEW w \in Processors, ProcessItem(w)
    PROVE  TypeOK'
<1> USE DEF discord, posts, state, timers
<1>1. CASE CheckThreadStatus(w)
  BY <1>1, StepTypes DEF CheckThreadStatus, TypeOK
<1>2. CASE UnarchiveThread(w)
  <2>1. proc' \in [Processors -> Job \cup {Idle}] /\ excused' \in SUBSET Posts
    BY <1>2, StepTypes DEF UnarchiveThread
  <2>2. thread' \in [Posts -> {"none", "other", "archived", "deleted"}]
    BY <1>2 DEF UnarchiveThread, TypeOK
  <2> QED BY <1>2, <2>1, <2>2 DEF UnarchiveThread, TypeOK
<1>3. CASE SendEmojiToThread(w)
  <2>1. proc' \in [Processors -> Job \cup {Idle}] /\ excused' \in SUBSET Posts
    BY <1>3, StepTypes DEF SendEmojiToThread
  <2>2. sent' \in [Posts -> Nat]
    BY <1>3 DEF SendEmojiToThread, TypeOK
  <2> QED BY <1>3, <2>1, <2>2 DEF SendEmojiToThread, TypeOK
<1>4. CASE MarkSent(w)
  <2>1. proc' \in [Processors -> Job \cup {Idle}] /\ excused' \in SUBSET Posts
    BY <1>4, StepTypes DEF MarkSent
  <2>2. IsRecords(records')
    <3>1. proc[w].item.trigger \in Trigger
      BY <1>4, JobType DEF MarkSent
    <3>2. CASE proc[w].item.post \in DOMAIN records
      <4>1. records' = [records EXCEPT ![proc[w].item.post].sent = @ \cup {proc[w].item.trigger}]
        BY <1>4, <3>2 DEF MarkSent, UpdateSent
      <4>2. [records[proc[w].item.post] EXCEPT !.sent = @ \cup {proc[w].item.trigger}] \in SentRecord
        BY <3>1, <3>2, ZenonT(40) DEF TypeOK, IsRecords, SentRecord
      <4> QED BY <3>2, <4>1, <4>2 DEF TypeOK, IsRecords
    <3>3. CASE proc[w].item.post \notin DOMAIN records
      BY <1>4, <3>3 DEF MarkSent, UpdateSent, TypeOK
    <3> QED BY <3>2, <3>3
  <2> QED BY <1>4, <2>1, <2>2 DEF MarkSent, TypeOK
<1>5. CASE SaveSent(w)
  <2>1. file'.whole \in BOOLEAN /\ IsRecords(file'.records)
    BY <1>5, SaveTypes DEF SaveSent, TypeOK
  <2> QED BY <1>5, <2>1 DEF SaveSent, TypeOK
<1> QED BY <1>1, <1>2, <1>3, <1>4, <1>5 DEF ProcessItem

\* The cleanup, the clock and the end of the process.
LEMMA OtherTypeOK ==
    TypeOK /\ (CleanupOldRecords \/ SaveAfterCleanup \/ Tick \/ Crash) => TypeOK'
<1> SUFFICES ASSUME TypeOK, CleanupOldRecords \/ SaveAfterCleanup \/ Tick \/ Crash
             PROVE  TypeOK'
  OBVIOUS
<1> USE DEF discord, posts, state, timers
<1>0. TRUE \in BOOLEAN /\ FALSE \in BOOLEAN
  OBVIOUS
<1>1. CASE CleanupOldRecords
  <2>1. IsRecords(records')
    BY <1>1, RecordsTypes DEF CleanupOldRecords, TypeOK
  <2> QED BY <1>0, <1>1, <2>1 DEF CleanupOldRecords, TypeOK
<1>2. CASE SaveAfterCleanup
  <2>1. file'.whole \in BOOLEAN /\ IsRecords(file'.records)
    BY <1>2, SaveTypes DEF SaveAfterCleanup, TypeOK
  <2> QED BY <1>0, <1>2, <2>1 DEF SaveAfterCleanup, TypeOK
<1>3. CASE Tick
  <2>1. hour' \in 0..MaxHour
    BY <1>3, BoundAssumption DEF Tick, TypeOK
  <2> QED BY <1>3, <2>1 DEF Tick, TypeOK
<1>4. CASE Crash
  <2>1. crashes' \in 0..MaxCrashes
    BY <1>4, BoundAssumption DEF Crash, TypeOK
  <2>2. IsRecords(NoRecords)
    BY DEF IsRecords, NoRecords
  <2>3. file'.whole \in BOOLEAN /\ IsRecords(file'.records)
    <3>1. file' = file \/ file' = PartialFile
      BY <1>4, Zenon DEF Crash
    <3>2. CASE file' = file
      BY <3>2 DEF TypeOK
    <3>3. CASE file' = PartialFile
      BY <2>2, <3>3 DEF PartialFile
    <3> QED BY <3>1, <3>2, <3>3
  <2>4. proc' \in [Processors -> Job \cup {Idle}] /\ queue' \in Seq(QueueItem)
    BY <1>4 DEF Crash
  <2> QED BY <1>0, <1>4, <2>1, <2>2, <2>3, <2>4 DEF Crash, TypeOK
<1> QED BY <1>1, <1>2, <1>3, <1>4

\* Every step keeps the types.
LEMMA NextTypes == TypeOK /\ [Next]_vars => TypeOK'
<1>1. TypeOK /\ Next => TypeOK'
  BY StartTypeOK, RebuildTypeOK, ThreadTypeOK, QueueTypeOK, ProcessTypeOK, OtherTypeOK DEF Next
<1>2. TypeOK /\ UNCHANGED vars => TypeOK'
  BY DEF TypeOK, vars
<1> QED BY <1>1, <1>2

\* Every variable has its type, records included that were read from a file left by an
\* earlier run.
THEOREM TypeCorrect == Spec => []TypeOK
BY InitTypes, NextTypes, PTL DEF Spec
-----------------------------------------------------------------------------
(* What a step changes                                                     *)

\* Time, emojis and excuses only grow, and a post is created once.
LEMMA Grows ==
    ASSUME TypeOK, Next, NEW p \in Posts
    PROVE  /\ hour' >= hour
           /\ sent[p] > 0 => sent'[p] > 0
           /\ p \in excused => p \in excused'
           /\ thread[p] # "none" => born'[p] = born[p] /\ thread'[p] # "none"
<1> USE DEF discord, posts, state, timers
<1>0. hour \in Nat
  BY DEF TypeOK
<1>1. CASE Restart \/ InitQueue \/ RebuildTimersOnStartup
  <2>1. UNCHANGED <<hour, thread, born, sent>>
    BY <1>1 DEF Restart, InitQueue, RebuildTimersOnStartup
  <2>2. p \in excused => p \in excused'
    BY <1>1 DEF Restart, InitQueue, RebuildTimersOnStartup
  <2> QED BY <1>0, <2>1, <2>2
<1>2. ASSUME NEW q \in Posts, HandleThreadCreate(q) \/ HandleThreadDelete(q) \/ ThreadChanges(q)
      PROVE  /\ hour' >= hour
             /\ sent[p] > 0 => sent'[p] > 0
             /\ p \in excused => p \in excused'
             /\ thread[p] # "none" => born'[p] = born[p] /\ thread'[p] # "none"
  BY <1>2 DEF HandleThreadCreate, HandleThreadDelete, ThreadChanges, TypeOK
<1>3. ASSUME NEW q \in Posts, CreateTimersForNewPost(q)
      PROVE  /\ UNCHANGED <<hour, sent, thread, born>>
             /\ p \in excused => p \in excused'
  BY <1>3 DEF CreateTimersForNewPost
<1>4. CASE \/ \E t \in armed : HandleTimer(t)
           \/ \E t \in firing : Enqueue(t)
           \/ \E w \in Processors : Dequeue(w)
  BY <1>4 DEF HandleTimer, Enqueue, Dequeue, TypeOK
<1>5. ASSUME NEW w \in Processors, ProcessItem(w)
      PROVE  /\ UNCHANGED <<hour, born>>
             /\ sent[p] > 0 => sent'[p] > 0
             /\ p \in excused => p \in excused'
             /\ thread[p] # "none" => thread'[p] # "none"
  <2>1. UNCHANGED <<hour, born>>
    BY <1>5 DEF ProcessItem, CheckThreadStatus, UnarchiveThread, SendEmojiToThread, MarkSent, SaveSent
  <2>2. sent[p] > 0 => sent'[p] > 0
    BY <1>5 DEF ProcessItem, CheckThreadStatus, UnarchiveThread, SendEmojiToThread, MarkSent, SaveSent,
                TypeOK
  <2>3. p \in excused => p \in excused'
    BY <1>5 DEF ProcessItem, CheckThreadStatus, UnarchiveThread, SendEmojiToThread, MarkSent, SaveSent,
                Proceed, Drop
  <2>4. thread[p] # "none" => thread'[p] # "none"
    BY <1>5 DEF ProcessItem, CheckThreadStatus, UnarchiveThread, SendEmojiToThread, MarkSent, SaveSent,
                TypeOK
  <2> QED BY <2>1, <2>2, <2>3, <2>4
<1>6. CASE CleanupOldRecords \/ SaveAfterCleanup \/ Tick \/ Crash
  BY <1>6 DEF CleanupOldRecords, SaveAfterCleanup, Tick, Crash, TypeOK
<1> QED BY <1>1, <1>2, <1>3, <1>4, <1>5, <1>6, <1>0 DEF Next

\* A goroutine at work was at work before, on the same item, unless it has just dequeued it.
LEMMA SameItem ==
    ASSUME TypeOK, NEW w \in Processors, NEW v \in Processors, ProcessItem(v), proc'[w].pc # "idle"
    PROVE  /\ proc[w].pc # "idle" /\ proc'[w].item = proc[w].item
           /\ proc'[w].pc = "update" => \/ proc[w].pc = "update"
                                        \/ w = v /\ SendEmojiToThread(v) /\ proc[w].pc = "send"
           /\ proc'[w].pc = "save" => proc[w].pc \in {"update", "save"}
<1>1. \/ proc' = [proc EXCEPT ![v] = Idle]
      \/ proc' = [proc EXCEPT ![v].pc = "unarchive"] /\ proc[v].pc = "check"
      \/ proc' = [proc EXCEPT ![v].pc = "send"] /\ proc[v].pc = "unarchive"
      \/ proc' = [proc EXCEPT ![v].pc = "update"] /\ proc[v].pc = "send" /\ SendEmojiToThread(v)
      \/ proc' = [proc EXCEPT ![v].pc = "save"] /\ proc[v].pc = "update"
  BY DEF ProcessItem, CheckThreadStatus, UnarchiveThread, SendEmojiToThread, MarkSent, SaveSent,
         Proceed, Drop
<1>2. CASE w # v
  <2>1. proc'[w] = proc[w]
    BY <1>1, <1>2 DEF TypeOK
  <2> QED BY <2>1
<1>3. CASE w = v
  <2>1. ASSUME proc' = [proc EXCEPT ![v] = Idle]
        PROVE  FALSE
    <3>1. proc'[v] = Idle
      BY <2>1 DEF TypeOK
    <3> QED BY <1>3, <3>1 DEF Idle
  <2>2. proc[v] \in Job
    BY <1>1, <2>1, JobType
  <2> QED BY <1>1, <1>3, <2>1, <2>2 DEF TypeOK, Job
<1> QED BY <1>2, <1>3

\* A timer that is armed was armed before, or is one of a new post or of a rebuild.
LEMMA ArmedBy ==
    ASSUME TypeOK, Next, NEW t \in armed'
    PROVE  \/ t \in armed
           \/ \E p \in creating : t \in NewTimers(p)
           \/ \E p \in GetRecentPosts : t \in RebuiltTimers(p, RecordFor(p))
<1>1. CASE RebuildTimersOnStartup
  BY <1>1 DEF RebuildTimersOnStartup
<1>2. ASSUME NEW p \in Posts, CreateTimersForNewPost(p)
      PROVE  t \in armed \/ t \in NewTimers(p)
  BY <1>2 DEF CreateTimersForNewPost
<1>3. ASSUME ~ RebuildTimersOnStartup, \A p \in Posts : ~ CreateTimersForNewPost(p)
      PROVE  t \in armed
  BY <1>3 DEF Next, ProcessItem, Restart, InitQueue, HandleThreadCreate, HandleThreadDelete,
              ThreadChanges, HandleTimer, Enqueue, Dequeue, CheckThreadStatus, UnarchiveThread,
              SendEmojiToThread, MarkSent, SaveSent, CleanupOldRecords, SaveAfterCleanup, Tick,
              Crash, timers
<1>4. \A p \in Posts : CreateTimersForNewPost(p) => p \in creating
  BY DEF CreateTimersForNewPost
<1> QED BY <1>1, <1>2, <1>3, <1>4

\* Only a timer whose time has come stops being armed, until the process ends.
LEMMA Disarmed ==
    ASSUME TypeOK, Next, NEW t \in armed, t \notin armed'
    PROVE  t.at <= hour \/ Crash
BY DEF Next, ProcessItem, Restart, InitQueue, RebuildTimersOnStartup, HandleThreadCreate, CreateTimersForNewPost,
       HandleThreadDelete, ThreadChanges, HandleTimer, Enqueue, Dequeue, CheckThreadStatus,
       UnarchiveThread, SendEmojiToThread, MarkSent, SaveSent, CleanupOldRecords, SaveAfterCleanup,
       Tick, timers

\* A post whose timer has fired had one that had fired before, or that fires now.
LEMMA FiredBy ==
    ASSUME TypeOK, Next, NEW p \in Posts, Fired(p)'
    PROVE  Fired(p) \/ \E t \in armed : t.post = p /\ t.at <= hour
<1> USE DEF discord, posts, state, timers
<1>1. CASE Restart \/ InitQueue \/ RebuildTimersOnStartup \/ CleanupOldRecords \/ SaveAfterCleanup \/ Tick
  BY <1>1 DEF Fired, Restart, InitQueue, RebuildTimersOnStartup, CleanupOldRecords, SaveAfterCleanup, Tick
<1>2. ASSUME NEW q \in Posts, \/ HandleThreadCreate(q) \/ CreateTimersForNewPost(q)
                              \/ HandleThreadDelete(q) \/ ThreadChanges(q)
      PROVE  Fired(p)
  BY <1>2 DEF Fired, HandleThreadCreate, CreateTimersForNewPost, HandleThreadDelete, ThreadChanges
<1>3. ASSUME NEW t \in armed, HandleTimer(t)
      PROVE  Fired(p) \/ \E u \in armed : u.post = p /\ u.at <= hour
  BY <1>3 DEF Fired, HandleTimer
<1>4. ASSUME NEW t \in firing, Enqueue(t)
      PROVE  Fired(p)
  <2>1. ASSUME NEW i \in 1..Len(queue'), queue'[i].post = p
        PROVE  Fired(p)
    <3>1. CASE queue' = queue
      BY <2>1, <3>1 DEF Fired
    <3>2. CASE queue' = Append(queue, Item(t))
      <4>1. Item(t) \in QueueItem
        BY DEF TypeOK, Timer, Item, QueueItem
      <4>2. i <= Len(queue) \/ queue'[i] = Item(t)
        BY <2>1, <3>2, <4>1, AppendProperties DEF TypeOK
      <4>3. i <= Len(queue) => queue'[i] = queue[i] /\ i \in 1..Len(queue)
        BY <2>1, <3>2, <4>1, AppendProperties DEF TypeOK
      <4> QED BY <2>1, <4>2, <4>3 DEF Fired, Item
    <3> QED BY <1>4, <3>1, <3>2 DEF Enqueue
  <2> QED BY <1>4, <2>1 DEF Fired, Enqueue
<1>5. ASSUME NEW v \in Processors, Dequeue(v)
      PROVE  Fired(p)
  <2>1. queue \in Seq(QueueItem) /\ queue # <<>>
    BY <1>5 DEF Dequeue, TypeOK
  <2>2. Head(queue) = queue[1] /\ 1 \in 1..Len(queue)
    BY <2>1, HeadTailProperties
  <2>3. \A i \in 1..Len(Tail(queue)) : Tail(queue)[i] = queue[i + 1] /\ i + 1 \in 1..Len(queue)
    BY <2>1, HeadTailProperties
  <2>4. \A w \in Processors : proc'[w].pc # "idle" => proc'[w] = proc[w] \/ proc'[w].item = Head(queue)
    BY <1>5 DEF Dequeue, TypeOK
  <2> QED BY <1>5, <2>2, <2>3, <2>4 DEF Fired, Dequeue
<1>6. ASSUME NEW v \in Processors, ProcessItem(v)
      PROVE  Fired(p)
  <2>1. UNCHANGED <<firing, queue>>
    BY <1>6 DEF ProcessItem, CheckThreadStatus, UnarchiveThread, SendEmojiToThread, MarkSent, SaveSent
  <2> QED BY <1>6, <2>1, SameItem DEF Fired
<1>7. CASE Crash
  BY <1>7 DEF Fired, Crash, Idle
<1> QED BY <1>1, <1>2, <1>3, <1>4, <1>5, <1>6, <1>7 DEF Next

\* A post in hand was in hand, or gets its first timers, or those of a rebuild.
LEMMA HandedBy ==
    ASSUME TypeOK, Next, NEW p \in Posts, InHand(p)'
    PROVE  InHand(p) \/ p \in rows \cup creating
<1>1. CASE Fired(p)'
  BY <1>1, FiredBy DEF InHand
<1>2. CASE \E t \in armed' : t.post = p
  <2>1. PICK t \in armed' : t.post = p
    BY <1>2
  <2>2. CASE t \in armed
    BY <2>1, <2>2 DEF InHand
  <2>3. CASE \E q \in creating : t \in NewTimers(q)
    BY <2>1, <2>3 DEF NewTimers
  <2>4. CASE \E q \in GetRecentPosts : t \in RebuiltTimers(q, RecordFor(q))
    BY <2>1, <2>4, RebuiltTypes DEF GetRecentPosts, TypeOK
  <2> QED BY <2>1, <2>2, <2>3, <2>4, ArmedBy
<1> QED BY <1>1, <1>2 DEF InHand
-----------------------------------------------------------------------------
(* The invariant                                                           *)

\* It holds before the first start.
LEMMA InitIInv == Init => IInv
<1> SUFFICES ASSUME Init PROVE IInv
  OBVIOUS
<1>1. TypeOK
  BY InitTypes
<1>2. \A p \in Posts : ~ Fired(p) /\ ~ InHand(p)
  <2>1. \A w \in Processors : proc[w].pc = "idle"
    BY DEF Init, Idle
  <2>2. Len(queue) = 0
    BY DEF Init
  <2>3. \A i \in 1..Len(queue) : FALSE
    BY <2>2
  <2>4. firing = {} /\ armed = {}
    BY DEF Init
  <2> QED BY <2>1, <2>3, <2>4 DEF Fired, InHand
<1>3. PostsExist
  <2>1. \A p \in Posts : thread[p] = "none" /\ born[p] = 0 /\ p \notin rows \cup creating
    BY DEF Init
  <2> QED BY <1>2, <2>1 DEF Init, PostsExist
<1>4. MarksAreTrue
  BY DEF Init, MarksAreTrue, Marked, NoRecords, WholeFile, Idle
<1>5. InTime /\ ChancesKept /\ NoPostForgotten
  BY <1>2 DEF Init, InTime, ChancesKept, NoPostForgotten
<1> QED BY <1>1, <1>3, <1>4, <1>5 DEF IInv

\* Nothing refers to a thread that does not exist, and a row is lost with an excuse only.
LEMMA PostsExistStep == IInv /\ Next => PostsExist'
<1> SUFFICES ASSUME IInv, Next PROVE PostsExist'
  OBVIOUS
<1>0. TypeOK /\ PostsExist
  BY DEF IInv
<1> USE DEF discord, posts, state, timers
<1>1. ASSUME NEW p \in Posts, p \in rows' \cup creating' \/ InHand(p)'
      PROVE  thread'[p] # "none"
  <2>1. CASE thread[p] # "none"
    BY <1>0, <2>1, Grows
  <2>2. CASE thread[p] = "none"
    <3>1. p \notin rows \cup creating /\ ~ InHand(p)
      BY <1>0, <2>2 DEF PostsExist
    <3>2. ~ InHand(p)'
      BY <1>0, <3>1, HandedBy
    <3>3. p \in rows' \cup creating'
      BY <1>1, <3>2
    <3>4. HandleThreadCreate(p)
      BY <3>1, <3>3 DEF Next, ProcessItem, Restart, InitQueue, RebuildTimersOnStartup,
         HandleThreadCreate, CreateTimersForNewPost, HandleThreadDelete, ThreadChanges, HandleTimer,
         Enqueue, Dequeue, CheckThreadStatus, UnarchiveThread, SendEmojiToThread, MarkSent, SaveSent,
         CleanupOldRecords, SaveAfterCleanup, Tick, Crash
    <3> QED BY <1>0, <3>4 DEF HandleThreadCreate, TypeOK
  <2> QED BY <2>1, <2>2
<1>2. ASSUME NEW p \in Posts, thread'[p] # "none"
      PROVE  p \in rows' \cup excused'
  <2>1. CASE thread[p] = "none"
    <3>1. ASSUME NEW w \in Processors, UnarchiveThread(w)
          PROVE  thread' = thread \/ thread' = [thread EXCEPT ![proc[w].item.post] = "other"]
      BY <3>1 DEF UnarchiveThread
    <3>2. ASSUME NEW w \in Processors, UnarchiveThread(w)
          PROVE  proc[w].item.post # p
      BY <1>0, <2>1, <3>2 DEF UnarchiveThread, PostsExist, InHand, Fired
    <3>3. \A w \in Processors : ~ UnarchiveThread(w)
      BY <1>0, <1>2, <2>1, <3>1, <3>2 DEF TypeOK
    <3>4. \A q \in Posts : ~ ThreadChanges(q) /\ ~ HandleThreadDelete(q)
      BY <1>0, <1>2, <2>1 DEF ThreadChanges, HandleThreadDelete, TypeOK
    <3>5. \E q \in Posts : HandleThreadCreate(q)
      BY <1>2, <2>1, <3>3, <3>4 DEF Next, ProcessItem, Restart, InitQueue, RebuildTimersOnStartup,
         CreateTimersForNewPost, HandleTimer, Enqueue, Dequeue, CheckThreadStatus, SendEmojiToThread,
         MarkSent, SaveSent, CleanupOldRecords, SaveAfterCleanup, Tick, Crash
    <3> QED BY <1>0, <1>2, <2>1, <3>5 DEF HandleThreadCreate, TypeOK
  <2>2. CASE thread[p] # "none"
    <3>1. p \in excused => p \in excused'
      BY <1>0, Grows
    <3>2. p \in rows \cup excused
      BY <1>0, <2>2 DEF PostsExist
    <3>3. p \in rows => p \in rows' \/ HandleThreadDelete(p)
      <4>1. CASE \E q \in Posts : HandleThreadCreate(q) \/ CreateTimersForNewPost(q)
                                 \/ HandleThreadDelete(q) \/ ThreadChanges(q)
        BY <4>1 DEF HandleThreadCreate, CreateTimersForNewPost, HandleThreadDelete, ThreadChanges
      <4>2. CASE \/ \E t \in armed : HandleTimer(t)
                 \/ \E t \in firing : Enqueue(t)
                 \/ \E w \in Processors : Dequeue(w)
        BY <4>2 DEF HandleTimer, Enqueue, Dequeue
      <4>3. CASE \E w \in Processors : ProcessItem(w)
        BY <4>3 DEF ProcessItem, CheckThreadStatus, UnarchiveThread, SendEmojiToThread, MarkSent, SaveSent
      <4>4. CASE Restart \/ InitQueue \/ RebuildTimersOnStartup
        BY <4>4 DEF Restart, InitQueue, RebuildTimersOnStartup
      <4>5. CASE CleanupOldRecords \/ SaveAfterCleanup \/ Tick \/ Crash
        BY <4>5 DEF CleanupOldRecords, SaveAfterCleanup, Tick, Crash
      <4> QED BY <1>0, <4>1, <4>2, <4>3, <4>4, <4>5 DEF Next
    <3>4. HandleThreadDelete(p) => p \in excused'
      BY DEF HandleThreadDelete
    <3> QED BY <3>1, <3>2, <3>3, <3>4
  <2> QED BY <2>1, <2>2
<1>3. ASSUME NEW p \in Posts
      PROVE  born'[p] <= hour'
  <2>1. born[p] \in Nat /\ hour \in Nat /\ hour' >= hour /\ born[p] <= hour
    BY <1>0, Grows DEF TypeOK, PostsExist
  <2>2. \/ born'[p] = born[p]
        \/ born'[p] = hour /\ hour' = hour
    BY <1>0 DEF Next, ProcessItem, Restart, InitQueue, RebuildTimersOnStartup,
       HandleThreadCreate, CreateTimersForNewPost, HandleThreadDelete, ThreadChanges, HandleTimer,
       Enqueue, Dequeue, CheckThreadStatus, UnarchiveThread, SendEmojiToThread, MarkSent, SaveSent,
       CleanupOldRecords, SaveAfterCleanup, Tick, Crash, TypeOK
  <2>3. hour' \in Nat
    BY <1>0, NextTypes DEF TypeOK
  <2> QED BY <2>1, <2>2, <2>3
<1> QED BY <1>1, <1>2, <1>3 DEF PostsExist

\* Marks come with an emoji, from the goroutine that sent it or from the file.
LEMMA MarksAreTrueStep == IInv /\ Next => MarksAreTrue'
<1> SUFFICES ASSUME IInv, Next PROVE MarksAreTrue'
  OBVIOUS
<1> DEFINE True(f) == \A p \in DOMAIN f : f[p].sent # {} => sent'[p] > 0
<1>0. TypeOK /\ MarksAreTrue
  BY DEF IInv
<1>1. \A p \in Posts : sent[p] > 0 => sent'[p] > 0
  BY <1>0, Grows
<1>3. ASSUME NEW f, IsRecords(f), Marked(f)
      PROVE  True(f)
  BY <1>1, <1>3 DEF Marked, IsRecords
<1>4. True(records) /\ True(file.records)
  BY <1>0, <1>3 DEF TypeOK, MarksAreTrue
<1>5. ASSUME NEW w \in Processors, proc'[w].pc \in {"update", "save"}
      PROVE  sent'[proc'[w].item.post] > 0
  <2>1. ASSUME proc[w].pc \in {"update", "save"}, proc'[w].item = proc[w].item
        PROVE  sent'[proc'[w].item.post] > 0
    BY <1>0, <1>1, <2>1, JobType DEF MarksAreTrue
  <2>2. ASSUME NEW v \in Processors, ProcessItem(v)
        PROVE  sent'[proc'[w].item.post] > 0
    <3>1. CASE proc[w].pc \in {"update", "save"}
      BY <1>0, <1>5, <2>1, <2>2, <3>1, SameItem
    <3>2. CASE proc[w].pc \notin {"update", "save"}
      <4>1. w = v /\ SendEmojiToThread(v) /\ proc[w].pc = "send" /\ proc'[w].item = proc[w].item
        BY <1>0, <1>5, <2>2, <3>2, SameItem
      <4>2. proc[w].item.post \in Posts
        BY <1>0, <4>1, JobType
      <4>3. proc'[w].pc # "idle"
        BY <1>5
      <4>4. ~ Drop(v)
        BY <1>0, <4>1, <4>3 DEF Drop, TypeOK, Idle
      <4>5. sent' = [sent EXCEPT ![proc[v].item.post] = @ + 1]
        BY <4>1, <4>4 DEF SendEmojiToThread
      <4> QED BY <1>0, <4>1, <4>2, <4>5 DEF TypeOK
    <3> QED BY <3>1, <3>2
  <2>3. ASSUME \A v \in Processors : ~ ProcessItem(v)
        PROVE  proc[w].pc \in {"update", "save"} /\ proc'[w].item = proc[w].item
    <3>1. CASE Crash
      BY <1>5, <3>1 DEF Crash, Idle
    <3>2. ASSUME NEW v \in Processors, Dequeue(v)
          PROVE  proc'[w] = proc[w]
      BY <1>0, <1>5, <3>2 DEF Dequeue, TypeOK
    <3>3. ASSUME ~ Crash, \A v \in Processors : ~ Dequeue(v)
          PROVE  proc' = proc
      BY <2>3, <3>3 DEF Next, Restart, InitQueue, RebuildTimersOnStartup, HandleThreadCreate,
         CreateTimersForNewPost, HandleThreadDelete, ThreadChanges, HandleTimer, Enqueue,
         CleanupOldRecords, SaveAfterCleanup, Tick
    <3> QED BY <1>5, <3>1, <3>2, <3>3
  <2> QED BY <2>1, <2>2, <2>3
<1>6. ASSUME NEW f, SaveState(f), True(f)
      PROVE  True(file'.records)
  <2>1. file' = WholeFile(f) \/ file' = file \/ file' = PartialFile
    BY <1>6 DEF SaveState
  <2> QED BY <1>4, <1>6, <2>1 DEF WholeFile, PartialFile, NoRecords
<1>7. True(records') /\ True(file'.records)
  <2>1. CASE InitQueue
    BY <1>4, <2>1 DEF InitQueue
  <2>2. CASE RebuildTimersOnStartup
    <3>1. PICK read \in SUBSET GetRecentPosts :
            records' = [p \in DOMAIN records \cup read |-> RecordFor(p)]
      BY <2>2 DEF RebuildTimersOnStartup
    <3>2. \A p : p \in DOMAIN records => RecordFor(p) = records[p]
      BY DEF RecordFor
    <3>3. \A p : p \notin DOMAIN records => RecordFor(p).sent = {}
      BY DEF RecordFor
    <3>4. True(records')
      BY <1>4, <3>1, <3>2, <3>3
    <3>5. file' = file
      BY <2>2 DEF RebuildTimersOnStartup
    <3> QED BY <1>4, <3>4, <3>5
  <2>3. ASSUME NEW p \in Posts, CreateTimersForNewPost(p)
        PROVE  True(records') /\ True(file'.records)
    <3>1. CASE UNCHANGED <<records, file>>
      BY <1>4, <3>1
    <3>2. CASE /\ records' = WithRecord(p, [createdAt |-> born[p], sent |-> {}])
               /\ SaveState(records')
      <4>1. True(records')
        BY <1>4, <3>2 DEF WithRecord
      <4> QED BY <1>6, <3>2, <4>1
    <3> QED BY <2>3, <3>1, <3>2 DEF CreateTimersForNewPost, state
  <2>4. ASSUME NEW w \in Processors, MarkSent(w)
        PROVE  True(records') /\ True(file'.records)
    <3>1. proc[w].item.post \in Posts /\ sent[proc[w].item.post] > 0
      BY <1>0, <2>4, JobType DEF MarkSent, MarksAreTrue
    <3>2. sent'[proc[w].item.post] > 0
      BY <1>1, <3>1
    <3>3. file' = file
      BY <2>4 DEF MarkSent
    <3>4. True(records')
      <4>1. CASE records' = records
        BY <1>4, <4>1
      <4>2. CASE records' = [records EXCEPT ![proc[w].item.post].sent = @ \cup {proc[w].item.trigger}]
        BY <1>4, <3>2, <4>2
      <4> QED BY <2>4, <4>1, <4>2 DEF MarkSent, UpdateSent
    <3> QED BY <1>4, <3>3, <3>4
  <2>5. ASSUME NEW w \in Processors, SaveSent(w)
        PROVE  True(records') /\ True(file'.records)
    BY <1>4, <1>6, <2>5 DEF SaveSent
  <2>6. CASE CleanupOldRecords
    BY <1>4, <2>6 DEF CleanupOldRecords
  <2>7. CASE SaveAfterCleanup
    BY <1>4, <1>6, <2>7 DEF SaveAfterCleanup
  <2>8. CASE Crash
    <3>1. file' = file \/ file' = PartialFile
      BY <2>8, Zenon DEF Crash
    <3> QED BY <1>4, <2>8, <3>1 DEF Crash, PartialFile, NoRecords
  <2>9. ASSUME UNCHANGED <<records, file>>
        PROVE  True(records') /\ True(file'.records)
    BY <1>4, <2>9
  <2> QED BY <2>1, <2>2, <2>3, <2>4, <2>5, <2>6, <2>7, <2>8, <2>9
          DEF Next, ProcessItem, Restart, HandleThreadCreate, HandleThreadDelete, ThreadChanges,
              HandleTimer, Enqueue, Dequeue, CheckThreadStatus, UnarchiveThread, SendEmojiToThread,
              Tick, state
<1> QED BY <1>5, <1>7 DEF MarksAreTrue, Marked

\* The timers a step arms are in time, and a post whose timer has fired is old enough.
LEMMA InTimeStep == IInv /\ Next => InTime'
<1> SUFFICES ASSUME IInv, Next PROVE InTime'
  OBVIOUS
<1>0. TypeOK /\ PostsExist /\ InTime
  BY DEF IInv
<1>1. ASSUME NEW p \in Posts, InHand(p) \/ p \in rows \cup creating
      PROVE  born'[p] = born[p]
  BY <1>0, <1>1, Grows DEF PostsExist
<1>2. ASSUME NEW t \in armed'
      PROVE  t.at >= Due(t.post, t.trigger)'
  <2>1. ASSUME t.post \in Posts, t.trigger \in Trigger, born'[t.post] = born[t.post],
               t.at >= Due(t.post, t.trigger)
        PROVE  t.at >= Due(t.post, t.trigger)'
    BY <2>1 DEF Due
  <2>2. CASE t \in armed
    <3>1. t.post \in Posts /\ t.trigger \in Trigger /\ InHand(t.post)
      BY <1>0, <2>2 DEF TypeOK, Timer, InHand
    <3> QED BY <1>0, <1>1, <2>1, <2>2, <3>1 DEF InTime
  <2>3. ASSUME NEW p \in creating, t \in NewTimers(p)
        PROVE  t.at >= Due(t.post, t.trigger)'
    <3>1. p \in Posts /\ born'[p] = born[p]
      BY <1>0, <1>1 DEF TypeOK
    <3>2. born[p] \in Nat /\ hour \in Nat /\ born[p] <= hour
      BY <1>0, <3>1 DEF TypeOK, PostsExist
    <3>3. t.post = p /\ t.trigger \in Trigger
      BY <2>3 DEF NewTimers, Trigger
    <3>4. t.at >= Due(p, t.trigger)
      BY <2>3, <3>2, HoursAssumption DEF NewTimers, Due
    <3> QED BY <2>1, <3>1, <3>3, <3>4
  <2>4. ASSUME NEW p \in GetRecentPosts, t \in RebuiltTimers(p, RecordFor(p))
        PROVE  t.at >= Due(t.post, t.trigger)'
    <3>1. p \in Posts /\ p \in rows
      BY <1>0 DEF GetRecentPosts, TypeOK
    <3>2. PICK trigger \in Wanted(RecordFor(p)) : t = Rebuilt(p, trigger, Later(Due(p, trigger), hour))
      BY <2>4 DEF RebuiltTimers
    <3>3. trigger \in Trigger /\ t.post = p /\ t.trigger = trigger
      BY <3>2 DEF Wanted, Trigger, Rebuilt
    <3>4. t.at = Later(Due(p, trigger), hour) /\ Due(p, trigger) \in Nat /\ hour \in Nat
      BY <1>0, <3>1, <3>2, <3>3, DueTypes DEF Rebuilt, TypeOK
    <3>5. t.at >= Due(p, trigger)
      BY <3>4 DEF Later
    <3> QED BY <1>1, <2>1, <3>1, <3>3, <3>5
  <2> QED BY <1>0, <2>2, <2>3, <2>4, ArmedBy
<1>3. ASSUME NEW p \in Posts, Fired(p)'
      PROVE  hour' >= born'[p] + First
  <2>1. hour \in Nat /\ hour' \in Nat /\ born[p] \in Nat /\ First \in Nat
    BY <1>0, NextTypes, HoursAssumption DEF TypeOK
  <2>2. CASE Fired(p)
    <3>1. born'[p] = born[p] /\ hour >= born[p] + First /\ hour' >= hour
      BY <1>0, <1>1, <2>2, Grows DEF InTime, InHand
    <3> QED BY <2>1, <3>1
  <2>3. ASSUME NEW t \in armed, t.post = p, t.at <= hour
        PROVE  hour' >= born'[p] + First
    <3>1. born'[p] = born[p] /\ hour' >= hour
      BY <1>0, <1>1, <2>3, Grows DEF InHand
    <3>2. t.at >= Due(p, t.trigger) /\ t.at \in Nat
      BY <1>0, <2>3 DEF InTime, TypeOK, Timer
    <3>3. Due(p, t.trigger) >= born[p] + First
      BY <2>1, HoursAssumption DEF Due
    <3>4. Due(p, t.trigger) \in Nat
      BY <2>1, HoursAssumption DEF Due
    <3> QED BY <2>1, <2>3, <3>1, <3>2, <3>3, <3>4
  <2> QED BY <1>0, <1>3, <2>2, <2>3, FiredBy
<1> QED BY <1>2, <1>3 DEF InTime

\* A mark in the record a rebuild uses is there for an emoji that was sent.
LEMMA RecordForMarks ==
    ASSUME TypeOK, MarksAreTrue, NEW p \in Posts, RecordFor(p).sent # {}
    PROVE  sent[p] > 0
BY DEF RecordFor, MarksAreTrue, Marked

\* A rebuild arms both timers of a post without marks.
LEMMA RebuiltBoth ==
    ASSUME TypeOK, NEW p \in Posts, NEW r, r.sent = {}, NEW trigger \in Trigger
    PROVE  \E t \in RebuiltTimers(p, r) : t.post = p /\ t.trigger = trigger
<1>1. trigger \in Wanted(r)
  BY DEF Wanted, Trigger
<1>2. Rebuilt(p, trigger, Later(Due(p, trigger), hour)) \in RebuiltTimers(p, r)
  BY <1>1 DEF RebuiltTimers
<1> QED BY <1>2 DEF Rebuilt

\* The second timer of a post stays armed until it is due, and a post that comes into hand gets
\* it, or has got its emoji.
LEMMA ChancesKeptStep == IInv /\ Next => ChancesKept'
<1> SUFFICES ASSUME IInv, Next, NEW p \in Posts, InHand(p)' PROVE SecondChance(p)'
  BY DEF ChancesKept
<1>0. TypeOK /\ PostsExist /\ MarksAreTrue /\ InTime /\ ChancesKept
  BY DEF IInv
<1>1. /\ hour' >= hour
      /\ sent[p] > 0 => sent'[p] > 0
      /\ p \in excused => p \in excused'
      /\ thread[p] # "none" => born'[p] = born[p]
  BY <1>0, Grows
<1>2. hour \in Nat /\ hour' \in Nat /\ born[p] \in Nat /\ Second \in Nat
  BY <1>0, NextTypes, HoursAssumption DEF TypeOK
<1>3. ~ Crash
  <2>1. SUFFICES ASSUME Crash PROVE FALSE
    OBVIOUS
  <2>2. /\ firing' = {} /\ armed' = {} /\ Len(queue') = 0
        /\ \A w \in Processors : proc'[w].pc = "idle"
    BY <2>1 DEF Crash, Idle
  <2>3. \A i \in 1..Len(queue') : FALSE
    BY <2>2
  <2> QED BY <2>2, <2>3 DEF InHand, Fired
<1>4. CASE InHand(p)
  <2>1. thread[p] # "none" /\ SecondChance(p)
    BY <1>0, <1>4 DEF PostsExist, ChancesKept
  <2>2. CASE sent[p] > 0 \/ p \in excused
    BY <1>1, <2>2 DEF SecondChance
  <2>3. CASE hour >= born[p] + Second
    BY <1>1, <1>2, <2>1, <2>3 DEF SecondChance
  <2>4. ASSUME NEW t \in armed, t.post = p, t.trigger = "144h"
        PROVE  SecondChance(p)'
    <3>1. CASE t \in armed'
      BY <2>4, <3>1 DEF SecondChance
    <3>2. CASE t \notin armed'
      <4>1. t.at <= hour /\ t.at >= Due(p, "144h") /\ t.at \in Nat
        BY <1>0, <1>3, <2>4, <3>2, Disarmed DEF InTime, TypeOK, Timer
      <4>2. Due(p, "144h") = born[p] + Second
        BY DEF Due
      <4> QED BY <1>1, <1>2, <2>1, <4>1, <4>2 DEF SecondChance
    <3> QED BY <3>1, <3>2
  <2> QED BY <2>1, <2>2, <2>3, <2>4 DEF SecondChance
<1>5. CASE ~ InHand(p)
  <2>1. PICK t \in armed' : t.post = p /\ t \notin armed
    BY <1>0, <1>5, FiredBy DEF InHand
  <2>2. CASE \E q \in Posts : CreateTimersForNewPost(q)
    <3>1. PICK q \in Posts : CreateTimersForNewPost(q)
      BY <2>2
    <3>2. armed' = armed \cup NewTimers(q)
      BY <2>1, <3>1 DEF CreateTimersForNewPost
    <3>3. q = p
      BY <2>1, <3>2 DEF NewTimers
    <3>4. PICK u \in NewTimers(p) : u.post = p /\ u.trigger = "144h"
      BY DEF NewTimers
    <3>5. u \in armed'
      BY <3>2, <3>3
    <3> QED BY <3>4, <3>5 DEF SecondChance
  <2>3. CASE RebuildTimersOnStartup
    <3>1. PICK read \in SUBSET GetRecentPosts :
            armed' = armed \cup UNION {RebuiltTimers(q, RecordFor(q)) : q \in read}
      BY <2>3 DEF RebuildTimersOnStartup
    <3>2. PICK q \in read : t \in RebuiltTimers(q, RecordFor(q))
      BY <2>1, <3>1
    <3>3. q \in Posts
      BY <1>0, <3>1 DEF GetRecentPosts, TypeOK
    <3>4. q = p
      BY <1>0, <2>1, <3>2, <3>3, RebuiltTypes
    <3>5. CASE RecordFor(p).sent # {}
      BY <1>0, <1>1, <3>5, RecordForMarks DEF SecondChance
    <3>6. CASE RecordFor(p).sent = {}
      <4>1. PICK u \in RebuiltTimers(p, RecordFor(p)) : u.post = p /\ u.trigger = "144h"
        BY <1>0, <3>6, RebuiltBoth DEF Trigger
      <4>2. u \in armed'
        BY <3>1, <3>2, <3>4, <4>1
      <4> QED BY <4>1, <4>2 DEF SecondChance
    <3> QED BY <3>5, <3>6
  <2>4. CASE armed' \subseteq armed
    BY <2>1, <2>4
  <2> QED BY <2>2, <2>3, <2>4
          DEF Next, ProcessItem, Restart, InitQueue, HandleThreadCreate, HandleThreadDelete,
              ThreadChanges, HandleTimer, Enqueue, Dequeue, CheckThreadStatus, UnarchiveThread,
              SendEmojiToThread, MarkSent, SaveSent, CleanupOldRecords, SaveAfterCleanup, Tick,
              Crash, timers
<1> QED BY <1>4, <1>5

\* A goroutine that drops the item of a post has done so with its last chance, or leaves it with
\* the second timer.
LEMMA DropForgetsNothing ==
    ASSUME TypeOK, ChancesKept, NEW w \in Processors, proc[w].pc # "idle", Drop(w),
           UNCHANGED <<armed, sent>>
    PROVE  \/ sent'[proc[w].item.post] > 0
           \/ proc[w].item.post \in excused'
           \/ \E t \in armed' : t.post = proc[w].item.post
<1>1. proc[w].item.post \in Posts /\ InHand(proc[w].item.post)
  BY JobType DEF InHand, Fired
<1>2. SecondChance(proc[w].item.post)
  BY <1>1 DEF ChancesKept
<1>3. CASE hour >= born[proc[w].item.post] + Second
  BY <1>3 DEF Drop
<1>4. CASE proc[w].item.post \in excused
  BY <1>4 DEF Drop
<1> QED BY <1>2, <1>3, <1>4 DEF SecondChance

\* A step of an item's goroutine loses no post.
LEMMA ProcessForgetsNothing ==
    ASSUME IInv, NEW v \in Processors, ProcessItem(v), NEW p \in Posts, thread'[p] # "none"
    PROVE  sent'[p] > 0 \/ p \in excused' \/ p \in unwatched' \/ Tracked(p)'
<1> USE DEF discord, posts, state, timers
<1>0. TypeOK /\ PostsExist /\ ChancesKept /\ NoPostForgotten /\ Next
  BY DEF IInv, Next
<1>1. /\ UNCHANGED <<creating, phase, rows, unwatched, armed, firing, queue>>
      /\ proc[v].pc # "idle"
  BY DEF ProcessItem, CheckThreadStatus, UnarchiveThread, SendEmojiToThread, MarkSent, SaveSent
<1>2. thread[p] # "none"
  <2>1. proc[v].item.post \in Posts /\ InHand(proc[v].item.post)
    BY <1>0, <1>1, JobType DEF InHand, Fired
  <2>2. thread[proc[v].item.post] # "none"
    BY <1>0, <2>1 DEF PostsExist
  <2>3. thread' = thread \/ thread' = [thread EXCEPT ![proc[v].item.post] = "other"]
    BY DEF ProcessItem, CheckThreadStatus, UnarchiveThread, SendEmojiToThread, MarkSent, SaveSent
  <2> QED BY <1>0, <2>1, <2>2, <2>3 DEF TypeOK
<1>3. sent[p] > 0 => sent'[p] > 0
  BY <1>0, Grows
<1>4. p \in excused => p \in excused'
  BY <1>0, Grows
<1>5. CASE \/ p \in creating
           \/ phase \in {"down", "starting", "loaded"} /\ p \in rows
           \/ \E t \in armed \cup firing : t.post = p
           \/ Queued(p)
  BY <1>1, <1>5 DEF Tracked, Queued
<1>6. ASSUME NEW w \in Processors, proc[w].pc \in {"check", "unarchive", "send"}, proc[w].item.post = p
      PROVE  sent'[p] > 0 \/ p \in excused' \/ p \in unwatched' \/ Tracked(p)'
  <2>1. CASE w # v
    <3>1. proc'[w] = proc[w]
      BY <1>0, <2>1 DEF ProcessItem, CheckThreadStatus, UnarchiveThread, SendEmojiToThread, MarkSent,
         SaveSent, Drop, Proceed, TypeOK
    <3> QED BY <1>6, <3>1 DEF Tracked
  <2>2. CASE w = v
    <3>1. CASE Drop(v) /\ sent' = sent
      BY <1>0, <1>1, <1>6, <2>2, <3>1, DropForgetsNothing DEF Tracked
    <3>2. ASSUME NEW pc \in {"unarchive", "send"}, Proceed(v, pc)
          PROVE  Tracked(p)'
      <4>1. proc[v] \in Job
        BY <1>0, <1>1, JobType
      <4>2. proc'[v].pc = pc /\ proc'[v].item = proc[v].item
        BY <1>0, <3>2, <4>1 DEF Proceed, TypeOK, Job
      <4> QED BY <1>6, <2>2, <4>2 DEF Tracked
    <3>3. CASE sent' = [sent EXCEPT ![p] = @ + 1]
      BY <1>0, <3>3 DEF TypeOK
    <3> QED BY <1>6, <2>2, <3>1, <3>2, <3>3 DEF ProcessItem, CheckThreadStatus, UnarchiveThread,
               SendEmojiToThread, MarkSent, SaveSent
  <2> QED BY <2>1, <2>2
<1>7. sent[p] > 0 \/ p \in excused \/ p \in unwatched \/ Tracked(p)
  BY <1>0, <1>2 DEF NoPostForgotten
<1>8. p \in unwatched => p \in unwatched'
  BY <1>1
<1> QED BY <1>3, <1>4, <1>5, <1>6, <1>7, <1>8 DEF Tracked

\* The steps of a start lose no post but the excused ones: what has a row waits for the rebuild.
LEMMA StartForgetsNothing ==
    ASSUME IInv, Restart \/ InitQueue \/ RebuildTimersOnStartup, NEW p \in Posts, thread'[p] # "none"
    PROVE  sent'[p] > 0 \/ p \in excused' \/ p \in unwatched' \/ Tracked(p)'
<1> USE DEF discord, posts, state, timers
<1>0. TypeOK /\ MarksAreTrue /\ PostsExist /\ NoPostForgotten
  BY DEF IInv
<1>1. CASE Restart
  BY <1>0, <1>1 DEF Restart, NoPostForgotten, Tracked, Queued
<1>2. CASE InitQueue
  BY <1>0, <1>2 DEF InitQueue, NoPostForgotten, Tracked, Queued
<1>3. CASE RebuildTimersOnStartup
  <2>1. PICK read \in SUBSET GetRecentPosts :
          /\ armed' = armed \cup UNION {RebuiltTimers(q, RecordFor(q)) : q \in read}
          /\ excused' = excused \cup (rows \ (read \cup creating))
    BY <1>3 DEF RebuildTimersOnStartup
  <2>2. UNCHANGED <<thread, sent, rows, creating, firing, queue, proc>>
    BY <1>3 DEF RebuildTimersOnStartup
  <2>3. CASE p \notin rows
    BY <1>0, <2>1, <2>2, <2>3 DEF PostsExist
  <2>4. CASE p \in creating
    BY <2>2, <2>4 DEF Tracked
  <2>5. CASE p \in rows \ (read \cup creating)
    BY <2>1, <2>5
  <2>6. CASE p \in read
    <3>1. CASE RecordFor(p).sent # {}
      BY <1>0, <2>2, <3>1, RecordForMarks
    <3>2. CASE RecordFor(p).sent = {}
      <4>1. PICK u \in RebuiltTimers(p, RecordFor(p)) : u.post = p
        BY <1>0, <3>2, RebuiltBoth DEF Trigger
      <4>2. u \in armed'
        BY <2>1, <2>6, <4>1
      <4> QED BY <4>1, <4>2 DEF Tracked
    <3> QED BY <3>1, <3>2
  <2> QED BY <2>3, <2>4, <2>5, <2>6
<1> QED BY <1>1, <1>2, <1>3

\* Timers are armed before a new post is let go; the handlers of threads keep the rest.
LEMMA ThreadForgetsNothing ==
    ASSUME IInv, NEW q \in Posts, NEW p \in Posts, thread'[p] # "none",
           HandleThreadCreate(q) \/ CreateTimersForNewPost(q) \/ HandleThreadDelete(q) \/ ThreadChanges(q)
    PROVE  sent'[p] > 0 \/ p \in excused' \/ p \in unwatched' \/ Tracked(p)'
<1> USE DEF discord, posts, state, timers
<1>0. TypeOK /\ MarksAreTrue /\ PostsExist /\ NoPostForgotten
  BY DEF IInv
<1>1. CASE HandleThreadCreate(q)
  <2>1. CASE p = q
    BY <1>1, <2>1 DEF HandleThreadCreate, Tracked
  <2>2. CASE p # q
    <3>1. thread[p] # "none"
      BY <1>0, <1>1, <2>2 DEF HandleThreadCreate, TypeOK
    <3> QED BY <1>0, <1>1, <3>1 DEF HandleThreadCreate, NoPostForgotten, Tracked, Queued
  <2> QED BY <2>1, <2>2
<1>2. CASE CreateTimersForNewPost(q)
  <2>1. /\ UNCHANGED <<thread, sent, rows, unwatched, phase, firing, queue, proc>>
        /\ creating' = creating \ {q} /\ q \in creating
        /\ armed \subseteq armed' /\ excused \subseteq excused'
    BY <1>2 DEF CreateTimersForNewPost
  <2>2. CASE p # q
    BY <1>0, <2>1, <2>2 DEF NoPostForgotten, Tracked, Queued
  <2>3. CASE p = q
    <3>1. p \in rows \cup excused
      BY <1>0, <2>1 DEF PostsExist
    <3>2. CASE phase = "starting"
      BY <2>1, <3>1, <3>2 DEF Tracked
    <3>3. CASE phase = "disabled" /\ p \in excused'
      BY <3>3
    <3>4. CASE IsSent(p, "72h")
      BY <1>0, <2>1, <3>4 DEF IsSent, MarksAreTrue, Marked
    <3>5. CASE armed' = armed \cup NewTimers(p)
      <4>1. PICK u \in NewTimers(p) : u.post = p
        BY DEF NewTimers
      <4> QED BY <3>5, <4>1 DEF Tracked
    <3> QED BY <1>2, <2>3, <3>2, <3>3, <3>4, <3>5 DEF CreateTimersForNewPost
  <2> QED BY <2>2, <2>3
<1>3. CASE HandleThreadDelete(q)
  <2>1. CASE p = q
    BY <1>3, <2>1 DEF HandleThreadDelete
  <2>2. CASE p # q
    <3>1. thread[p] # "none"
      BY <1>0, <1>3, <2>2 DEF HandleThreadDelete, TypeOK
    <3>2. p \in rows => p \in rows'
      BY <1>3, <2>2 DEF HandleThreadDelete
    <3> QED BY <1>0, <1>3, <3>1, <3>2 DEF HandleThreadDelete, NoPostForgotten, Tracked, Queued
  <2> QED BY <2>1, <2>2
<1>4. CASE ThreadChanges(q)
  <2>1. thread[p] # "none"
    BY <1>0, <1>4 DEF ThreadChanges, TypeOK
  <2> QED BY <1>0, <1>4, <2>1 DEF ThreadChanges, NoPostForgotten, Tracked, Queued
<1> QED BY <1>1, <1>2, <1>3, <1>4

\* A post goes from its timer to the handler, to the queue and to a goroutine.
LEMMA QueueForgetsNothing ==
    ASSUME IInv, NEW p \in Posts, thread'[p] # "none",
           \/ \E t \in armed : HandleTimer(t)
           \/ \E t \in firing : Enqueue(t)
           \/ \E w \in Processors : Dequeue(w)
    PROVE  sent'[p] > 0 \/ p \in excused' \/ p \in unwatched' \/ Tracked(p)'
<1> USE DEF discord, posts, state, timers
<1>0. TypeOK /\ MarksAreTrue /\ NoPostForgotten
  BY DEF IInv
<1>1. ASSUME NEW t \in armed, HandleTimer(t)
      PROVE  sent'[p] > 0 \/ p \in excused' \/ p \in unwatched' \/ Tracked(p)'
  <2>1. /\ UNCHANGED <<thread, sent, excused, unwatched, creating, rows, phase, queue, proc>>
        /\ armed' = armed \ {t} /\ firing \subseteq firing'
    BY <1>1 DEF HandleTimer
  <2>2. CASE t \in firing'
    BY <1>0, <2>1, <2>2 DEF NoPostForgotten, Tracked, Queued
  <2>3. CASE \E s \in StopsAt(t.trigger) : IsSent(t.post, s)
    <3>1. sent[t.post] > 0
      BY <1>0, <2>3 DEF IsSent, MarksAreTrue, Marked
    <3> QED BY <1>0, <2>1, <3>1 DEF NoPostForgotten, Tracked, Queued
  <2> QED BY <1>1, <2>2, <2>3 DEF HandleTimer
<1>2. ASSUME NEW t \in firing, Enqueue(t)
      PROVE  sent'[p] > 0 \/ p \in excused' \/ p \in unwatched' \/ Tracked(p)'
  <2>1. /\ UNCHANGED <<thread, sent, excused, unwatched, creating, rows, phase, armed, proc>>
        /\ firing' = firing \ {t}
    BY <1>2 DEF Enqueue
  <2>2. Item(t) \in QueueItem /\ Item(t).post = t.post
    BY <1>0 DEF TypeOK, Timer, Item, QueueItem
  <2>3. TypeOK'
    BY <1>0, <1>2, QueueTypeOK
  <2>4. Queued(p) => Queued(p)'
    <3>1. CASE queue' = queue
      BY <3>1 DEF Queued
    <3>2. CASE queue' = Append(queue, Item(t))
      <4>1. /\ Len(queue') = Len(queue) + 1
            /\ \A i \in 1..Len(queue) : queue'[i] = queue[i]
        BY <1>0, <2>2, <3>2, AppendProperties DEF TypeOK
      <4>2. DOMAIN queue = 1..Len(queue) /\ DOMAIN queue' = 1..Len(queue') /\ Len(queue) \in Nat
        BY <1>0, <2>3 DEF TypeOK
      <4> QED BY <4>1, <4>2 DEF Queued
    <3> QED BY <1>2, <3>1, <3>2 DEF Enqueue
  <2>5. Queued(t.post)'
    <3>1. CASE Queued(t.post) /\ queue' = queue
      BY <3>1 DEF Queued
    <3>2. CASE queue' = Append(queue, Item(t))
      <4>1. Len(queue') = Len(queue) + 1 /\ queue'[Len(queue) + 1] = Item(t)
        BY <1>0, <2>2, <3>2, AppendProperties DEF TypeOK
      <4>2. DOMAIN queue' = 1..Len(queue') /\ Len(queue) \in Nat
        BY <1>0, <2>3 DEF TypeOK
      <4>3. Len(queue) + 1 \in DOMAIN queue'
        BY <4>1, <4>2
      <4> QED BY <2>2, <4>1, <4>3 DEF Queued
    <3> QED BY <1>2, <3>1, <3>2 DEF Enqueue
  <2>6. CASE p = t.post
    BY <2>5, <2>6 DEF Tracked
  <2>7. CASE p # t.post
    BY <1>0, <2>1, <2>4, <2>7 DEF NoPostForgotten, Tracked
  <2> QED BY <2>6, <2>7
<1>3. ASSUME NEW w \in Processors, Dequeue(w)
      PROVE  sent'[p] > 0 \/ p \in excused' \/ p \in unwatched' \/ Tracked(p)'
  <2>1. /\ UNCHANGED <<thread, sent, excused, unwatched, creating, rows, phase, armed, firing>>
        /\ queue' = Tail(queue) /\ proc[w].pc = "idle"
        /\ queue \in Seq(QueueItem) /\ queue # <<>>
    BY <1>0, <1>3 DEF Dequeue, TypeOK
  <2>2. proc'[w].pc = "check" /\ proc'[w].item = Head(queue)
    BY <1>0, <1>3 DEF Dequeue, TypeOK
  <2>3. Queued(p) => p = Head(queue).post \/ Queued(p)'
    <3>1. /\ Head(queue) = queue[1] /\ Len(queue) \in Nat
          /\ DOMAIN queue = 1..Len(queue) /\ DOMAIN queue' = 1..(Len(queue) - 1)
          /\ \A i \in 1..(Len(queue) - 1) : queue'[i] = queue[i + 1]
      BY <2>1, HeadTailProperties
    <3>2. ASSUME NEW i \in DOMAIN queue, queue[i].post = p
          PROVE  p = Head(queue).post \/ Queued(p)'
      <4>1. CASE i = 1
        BY <3>1, <3>2, <4>1
      <4>2. CASE i # 1
        <5>1. i - 1 \in DOMAIN queue' /\ queue'[i - 1] = queue[i]
          BY <3>1, <4>2
        <5> QED BY <3>2, <5>1 DEF Queued
      <4> QED BY <4>1, <4>2
    <3> QED BY <3>2 DEF Queued
  <2>4. \A v \in Processors : proc[v].pc \in {"check", "unarchive", "send"} => proc'[v] = proc[v]
    BY <1>0, <1>3 DEF Dequeue, TypeOK
  <2>5. CASE p = Head(queue).post
    BY <2>2, <2>5 DEF Tracked
  <2>6. CASE p # Head(queue).post
    BY <1>0, <2>1, <2>3, <2>4, <2>6 DEF NoPostForgotten, Tracked
  <2> QED BY <2>5, <2>6
<1> QED BY <1>1, <1>2, <1>3

\* No step loses a post; the end of the process leaves its row to the next rebuild.
LEMMA NoPostForgottenStep == IInv /\ Next => NoPostForgotten'
<1> SUFFICES ASSUME IInv, Next, NEW p \in Posts, thread'[p] # "none"
             PROVE  sent'[p] > 0 \/ p \in excused' \/ p \in unwatched' \/ Tracked(p)'
  BY DEF NoPostForgotten
<1> USE DEF discord, posts, state, timers
<1>1. CASE Crash
  <2>1. phase' = "down" /\ UNCHANGED <<thread, rows, excused>>
    BY <1>1 DEF Crash
  <2>2. p \in rows \cup excused
    BY <2>1 DEF IInv, PostsExist
  <2> QED BY <2>1, <2>2 DEF Tracked
<1>2. CASE CleanupOldRecords \/ SaveAfterCleanup \/ Tick
  BY <1>2 DEF CleanupOldRecords, SaveAfterCleanup, Tick, IInv, NoPostForgotten, Tracked, Queued
<1> QED BY <1>1, <1>2, ProcessForgetsNothing, StartForgetsNothing, ThreadForgetsNothing,
           QueueForgetsNothing DEF Next

\* Every step keeps the invariant.
LEMMA NextIInv == IInv /\ [Next]_vars => IInv'
<1>1. IInv /\ Next => IInv'
  BY NextTypes, PostsExistStep, MarksAreTrueStep, InTimeStep, ChancesKeptStep, NoPostForgottenStep DEF IInv
<1>2. IInv /\ UNCHANGED vars => IInv'
  BY DEF IInv, TypeOK, PostsExist, MarksAreTrue, Marked, InTime, Due, ChancesKept, SecondChance, InHand,
         Fired, NoPostForgotten, Tracked, Queued, vars
<1> QED BY <1>1, <1>2

\* The invariant holds throughout.
LEMMA AlwaysIInv == Spec => []IInv
BY InitIInv, NextIInv, PTL DEF Spec

\* A post is never dropped silently: until it gets an emoji or is excused, something keeps it in
\* view, through timers, the queue, the item goroutines and any number of restarts.  The one
\* exception is a post saved without timers, for a guild that draws no cards, and only until the
\* process that saved it ends or rebuilds its timers.
THEOREM NothingForgotten == Spec => []NoPostForgotten
<1>1. IInv => NoPostForgotten
  BY DEF IInv
<1> QED BY <1>1, AlwaysIInv, PTL

\* No post gets an emoji in its first 72 hours, however its timers were made.
THEOREM NoneTooEarly == Spec => NoEarlyEmoji
<1>1. IInv /\ [Next]_vars =>
        [\A p \in Posts : sent'[p] # sent[p] => hour >= born[p] + First]_vars
  <2> SUFFICES ASSUME IInv, Next, NEW p \in Posts, sent'[p] # sent[p]
               PROVE  hour >= born[p] + First
    BY DEF vars
  <2>0. TypeOK /\ InTime
    BY DEF IInv
  <2>1. PICK w \in Processors : SendEmojiToThread(w) /\ sent' = [sent EXCEPT ![proc[w].item.post] = @ + 1]
    BY DEF Next, ProcessItem, Restart, InitQueue, RebuildTimersOnStartup, HandleThreadCreate,
       CreateTimersForNewPost, HandleThreadDelete, ThreadChanges, HandleTimer, Enqueue, Dequeue,
       CheckThreadStatus, UnarchiveThread, SendEmojiToThread, MarkSent, SaveSent, CleanupOldRecords,
       SaveAfterCleanup, Tick, Crash, discord, posts, state, timers
  <2>2. p = proc[w].item.post
    BY <2>0, <2>1 DEF TypeOK
  <2>3. Fired(p)
    BY <2>1, <2>2 DEF SendEmojiToThread, Fired
  <2> QED BY <2>0, <2>3 DEF InTime
<1> QED BY <1>1, AlwaysIInv, PTL DEF Spec, NoEarlyEmoji
=============================================================================
