---------------------------- MODULE PersonalNav ----------------------------
(***************************************************************************)
(* Personal navigations (handlers/personalnav, bot/personal_nav_update.go):*)
(* up to MaxWorks messages with a member's works, one with the top works   *)
(* and one with the latest, followed by an end marker.  A row of the user  *)
(* database keeps their IDs.  /personal-nav creates, refreshes or deletes  *)
(* a navigation, the scheduler updates all of them at night; an update     *)
(* edits the messages or deletes and sends them again.  These operations   *)
(* share the row and the messages without a lock.  Calls fail, messages    *)
(* and channels are deleted by others, and the process may end between any *)
(* two steps.                                                              *)
(*                                                                         *)
(* This is one slot: its row and the messages that the row names are its   *)
(* own.  A channel is shared with the other slots and with the members,    *)
(* whose messages may come in front of the end marker: it is looked for    *)
(* right after the latest works, and nothing keeps its ID.                 *)
(***************************************************************************)
EXTENDS Naturals, Sequences, SequencesExt, FiniteSetsExt

CONSTANTS
    Channels,       \* channels and threads a navigation may be in
    Commands,       \* goroutines that handle commands on the slot
    Scheduler,      \* the nightly batch, which works on a slot once a night
    MaxWorks,       \* bound: messages with works
    MaxID,          \* bound: messages that anything refers to at a time
    MaxCommands,    \* bound: commands of members
    MaxMishaps      \* bound: failed calls, changes made by others, crashes

ASSUME BoundAssumption ==
    /\ MaxWorks \in Nat \ {0}
    /\ MaxID \in Nat /\ MaxID >= MaxWorks + 2    \* room for one navigation
    /\ MaxCommands \in Nat
    /\ MaxMishaps \in Nat
    /\ Scheduler \notin Commands

ASSUME ChannelAssumption == Channels # {}

VARIABLES
    channel,    \* channel[c]: open, idle (archived, or nobody writes in the thread) or gone
    works,      \* messages that the member's posts in the chosen channels fill
    live,       \* the <<message ID, channel>> that exist
    markers,    \* the end markers: <<ID of the latest-works message, channel, place>>
    row,        \* the row of personal_navigation
    op,         \* op[o]: locals of an operation
    due,        \* the batch of the night is still to come
    commands,
    mishaps,
    lost        \* messages that something still knows of, but nothing will delete

world == <<channel, works>>
discord == <<live, markers, lost>>
bounds == <<due, commands>>
vars == <<channel, works, live, markers, row, op, due, commands, mishaps, lost>>
-----------------------------------------------------------------------------
Operations == Commands \cup {Scheduler}
ID == 1..MaxID
None == 0               \* no message at this place yet
Mode == {"edit", "delete"}

\* An end marker comes right after its latest-works message, or a member or another slot
\* has sent something between the two.
Position == {"next", "apart"}

NoRow == [works |-> <<>>, top |-> None, latest |-> None]
Row == [ works  : SeqOf(ID, MaxWorks),
         top    : ID,
         latest : ID,
         chan   : Channels,         \* MessageChannelID
         mode   : Mode ]

\* Locals.  The target channel is the messageChannelID of the result as well.
Off == [pc |-> "off"]
Update == [ pc       : {"read", "marker", "works", "excess", "top", "latest", "end", "save", "stale"},
            mode     : Mode,
            fallback : Channels,    \* fallbackChannelID
            target   : Channels,    \* targetChannelID
            existing : Row \cup {NoRow},
            count    : 1..MaxWorks, \* len(myWorksEmbeds)
            new      : SeqOf(ID, MaxWorks + 2) ]
Delete == [ pc : {"delete", "drop"}, existing : Row ]
Batch == [ pc : {"queued"}, nav : Row ]

RowIDs(r) == (Range(r.works) \cup {r.top, r.latest}) \ {None}
OpIDs(j) == CASE j.pc \in {"off", "read", "queued"} -> {}
              [] j.pc \in {"delete", "drop"} -> RowIDs(j.existing)
              [] OTHER -> RowIDs(j.existing) \cup Range(j.new)

Messages == {m[1] : m \in live \cup markers}

\* The messages that the row or an operation still knows of.
Known == RowIDs(row) \cup UNION {OpIDs(op[o]) : o \in Operations}

TypeOK ==
    /\ channel \in [Channels -> {"open", "idle", "gone"}]
    /\ works \in 0..MaxWorks
    /\ live \subseteq ID \X Channels
    /\ markers \subseteq ID \X Channels \X Position
    /\ row \in Row \cup {NoRow}
    /\ op \in [Operations -> Update \cup Delete \cup Batch \cup {Off}]
    /\ due \in BOOLEAN
    /\ commands \in 0..MaxCommands
    /\ mishaps \in 0..MaxMishaps
    /\ lost \subseteq ID

\* The process finds what an earlier one left: no navigation, or one with k messages of
\* works, sent in the mode and the channel of its row.
Init ==
    /\ channel = [c \in Channels |-> "open"]
    /\ works \in 1..MaxWorks
    /\ \/ /\ row = NoRow
          /\ live = {}
          /\ markers = {}
       \/ \E k \in 1..MaxWorks, mode \in Mode, c \in {CHOOSE c \in Channels : TRUE} :
             /\ row = [ works |-> [i \in 1..k |-> i], top |-> k + 1, latest |-> k + 2,
                        chan |-> c, mode |-> mode ]
             /\ live = (1..k + 2) \X {c}
             /\ markers = {<<k + 2, c, "next">>}
    /\ op = [o \in Operations |-> Off]
    /\ due = TRUE
    /\ commands = 0
    /\ mishaps = 0
    /\ lost = {}
-----------------------------------------------------------------------------
\* The last conjunct of an action: the messages and markers that there are now, and the
\* messages that it leaves behind.  Those drop out of the model when nothing knows of
\* them any more, as no step can touch them again, and so does a marker apart.
Become(ls, ms, ids) ==
    LET out == {id \in lost \cup ids : id \notin Known'}
    IN  /\ live' = {m \in ls : m[1] \notin out}
        /\ markers' = {m \in ms : m[1] \notin out /\ (m[3] = "next" \/ m[1] \in Known')}
        /\ lost' = (lost \cup ids) \ out

Leaves(ids) == Become(live, markers, ids)
LeavesNone == Leaves({})

\* What nothing knows of after the step.
Orphans == Messages \ Known'

Mishap == mishaps < MaxMishaps /\ mishaps' = mishaps + 1
Fine == UNCHANGED mishaps

Gone(c) == channel[c] = "gone"
Has(id, c) == <<id, c>> \in live
Without(ms, ids, c) == {m \in ms : m[1] \notin ids \/ m[2] # c}

\* findEndMarkerMessage: the marker, if it is the one message fetched after these: one
\* apart is, if what came between has been deleted.
EndMarker(ids, c, places) == ids \X {c} \X places
FoundAt == {{"next"}, Position}

\* A message ID that nothing refers to stands for a new one.
Unused == ID \ (Messages \cup Known)
Fresh == Min(Unused)

Goto(o, pc) == op' = [op EXCEPT ![o].pc = pc]
Finish(o) == op' = [op EXCEPT ![o] = Off]
-----------------------------------------------------------------------------
(* The operations begin                                                    *)

BeginUpdate(o, mode, fallback) ==
    op' = [op EXCEPT ![o] =
              [ pc |-> "read", mode |-> mode, fallback |-> fallback, target |-> fallback,
                existing |-> NoRow, count |-> 1, new |-> <<>> ]]

Command(o) ==
    /\ op[o] = Off
    /\ commands < MaxCommands
    /\ commands' = commands + 1
    /\ UNCHANGED <<world, discord, row, due, mishaps>>

\* The dialog of /personal-nav create ends with a mode, in the channel it was held in.
CreateOrReplaceNavigation(o, mode, c) ==
    /\ Command(o)
    /\ ~ Gone(c)
    /\ BeginUpdate(o, mode, c)

RefreshNavigation(o) ==
    /\ Command(o)
    /\ row # NoRow
    /\ BeginUpdate(o, row.mode, row.chan)

BeginDelete(o) ==
    /\ Command(o)
    /\ row # NoRow
    /\ op' = [op EXCEPT ![o] = [pc |-> "delete", existing |-> row]]

\* The batch reads all rows; a worker takes up this one later.
UpdateAllNavigations ==
    /\ due
    /\ due' = FALSE
    /\ row # NoRow
    /\ op' = [op EXCEPT ![Scheduler] = [pc |-> "queued", nav |-> row]]
    /\ UNCHANGED <<world, discord, row, commands, mishaps>>

\* A day is far longer than any operation: at most one night begins while one is at work.
DayPasses ==
    /\ ~ due
    /\ \A o \in Operations : op[o] = Off
    /\ due' = TRUE
    /\ UNCHANGED <<world, discord, row, op, commands, mishaps>>

\* A channel that does not exist makes the navigation stale, which is only counted; an
\* archived thread and one without activity are passed over.
UpdateNavigationScheduled ==
    LET nav == op[Scheduler].nav
    IN  /\ op[Scheduler].pc = "queued"
        /\ \/ Fine /\ channel[nav.chan] = "open" /\ BeginUpdate(Scheduler, nav.mode, nav.chan)
           \/ Fine /\ channel[nav.chan] # "open" /\ Finish(Scheduler)
           \/ Mishap /\ Finish(Scheduler)
        /\ UNCHANGED <<world, discord, row, bounds>>
-----------------------------------------------------------------------------
(* updateNavigation and applyNavigationEmbeds                              *)

\* The posts are fetched, perhaps not all of them, and the row is read again.  Without
\* posts, or if the row cannot be read, that is the end.
ReadExisting(o) ==
    /\ op[o].pc = "read"
    /\ UNCHANGED <<world, row, bounds>>
    /\ \/ \E n \in 1..works :
             /\ (n = works /\ Fine) \/ (n < works /\ Mishap)
             /\ op' = [op EXCEPT
                          ![o].pc = IF row # NoRow /\ op[o].mode = "delete" THEN "marker" ELSE "works",
                          ![o].existing = row,
                          ![o].count = n,
                          ![o].target = IF row # NoRow THEN row.chan ELSE @]
       \/ works = 0 /\ Fine /\ Finish(o)
       \/ Mishap /\ Finish(o)
    /\ LeavesNone

\* A marker that is not found is not looked for again once the row has another message
\* of latest works.
DeleteMarker(o) ==
    LET old == op[o].existing
    IN  /\ op[o].pc = "marker"
        /\ UNCHANGED <<world, row, bounds>>
        /\ Goto(o, "works")
        /\ \/ /\ Fine
              /\ \E places \in FoundAt :
                    Become(live, markers \ EndMarker({old.latest}, old.chan, places), {})
           \/ Mishap /\ Leaves({old.latest})

MissingIgnored(o) ==
    /\ Fine
    /\ Finish(o)
    /\ Leaves(Orphans)

MissingLeavesAPlace(o) ==
    /\ Fine
    /\ op' = [op EXCEPT ![o].new = Append(@, None)]
    /\ LeavesNone

\* A message to edit that is not in the target channel makes the record stale.
EditMissing(o) ==
    /\ Fine
    /\ Goto(o, "stale")
    /\ LeavesNone

ErrorIsStale(o) ==
    /\ Mishap
    /\ Goto(o, "stale")
    /\ LeavesNone

\* Any other error ends the update.
EditFails(o) ==
    /\ Mishap
    /\ Finish(o)
    /\ Leaves(Orphans)

\* sendOrEdit with an old message to edit.
EditMessage(o, old, next) ==
    /\ op[o].mode = "edit"
    /\ old # None
    /\ UNCHANGED <<world, row, bounds>>
    /\ \/ /\ Fine
          /\ Has(old, op[o].target)
          /\ op' = [op EXCEPT ![o].pc = next, ![o].new = Append(@, old)]
          /\ LeavesNone
       \/ ~ Has(old, op[o].target) /\ EditMissing(o)
       \/ EditFails(o)

\* sendOrEdit otherwise: an old message is deleted, a failure of which is ignored, and
\* a new one is sent, to the target channel or else to the fallback channel, which is
\* the target from then on.
SendMessage(o, old, next) ==
    LET target == op[o].target
        fallback == op[o].fallback
        rest == Without(live, {old}, target)
        SentTo(c, before, ids) ==
            /\ ~ Gone(c)
            /\ Unused # {}                           \* bound: MaxID
            /\ op' = [op EXCEPT ![o].pc = next, ![o].new = Append(@, Fresh), ![o].target = c]
            /\ Become(before \cup {<<Fresh, c>>}, markers, ids)
        SendFails == Mishap \/ (Gone(target) /\ Fine)
    IN  /\ op[o].mode = "delete" \/ old = None
        /\ UNCHANGED <<world, row, bounds>>
        /\ \/ Fine /\ SentTo(target, rest, {})
           \/ Mishap /\ old # None /\ SentTo(target, live, {old})    \* old could not be deleted
           \/ /\ SendFails
              /\ target # fallback
              /\ SentTo(fallback, rest, {m[1] : m \in {k \in live \cup markers : k[2] = target}})
           \/ /\ SendFails
              /\ Finish(o)
              /\ Become(rest, markers, Orphans)

SendOrEdit(o, old, next) == EditMessage(o, old, next) \/ SendMessage(o, old, next)

Old(o, i) == IF i <= Len(op[o].existing.works) THEN op[o].existing.works[i] ELSE None

SendWorks(o) ==
    /\ op[o].pc = "works"
    /\ LET i == Len(op[o].new) + 1
       IN  SendOrEdit(o, Old(o, i), IF i = op[o].count THEN "excess" ELSE "works")

ExcessButOne(o) ==
    {op[o].existing.works[i] : i \in op[o].count + 2 .. Len(op[o].existing.works)}

\* The messages of works that there are no works for any more.
Excess(o) ==
    {op[o].existing.works[i] : i \in op[o].count + 1 .. Len(op[o].existing.works)}

DeleteExcess(o) ==
    /\ op[o].pc = "excess"
    /\ UNCHANGED <<world, row, bounds>>
    /\ Goto(o, "top")
    /\ \/ Fine /\ Become(Without(live, Excess(o), op[o].target), markers, {})
       \/ Mishap /\ Leaves(Excess(o))

SendTop(o) == op[o].pc = "top" /\ SendOrEdit(o, op[o].existing.top, "latest")

\* A navigation that is new, or was sent again, gets an end marker.
SendLatest(o) ==
    /\ op[o].pc = "latest"
    /\ SendOrEdit(o, op[o].existing.latest,
                  IF op[o].existing = NoRow \/ op[o].mode = "delete" THEN "end" ELSE "save")

SendMarker(o) ==
    /\ op[o].pc = "end"
    /\ UNCHANGED <<world, row, bounds>>
    /\ Goto(o, "save")
    /\ \/ /\ ~ Gone(op[o].target)
          /\ \E place \in Position :
                /\ IF place = "next" THEN Fine ELSE Mishap    \* another was faster
                /\ Become(live, markers \cup {<<Last(op[o].new), op[o].target, place>>}, {})
       \/ /\ Mishap \/ (Gone(op[o].target) /\ Fine)
          /\ LeavesNone

\* UpsertPersonalNavigation.  The row may not be the one that was read any more.
SaveNavigation(o) ==
    LET k == op[o].count
    IN  /\ op[o].pc = "save"
        /\ UNCHANGED <<world, bounds>>
        /\ Finish(o)
        /\ \/ /\ Fine
              /\ row' = [ works  |-> SubSeq(op[o].new, 1, k),
                          top    |-> op[o].new[k + 1],
                          latest |-> op[o].new[k + 2],
                          chan   |-> op[o].target,
                          mode   |-> op[o].mode ]
              /\ Leaves(IF row = op[o].existing THEN {} ELSE Orphans)
           \/ /\ Mishap
              /\ UNCHANGED row
              /\ Leaves(Orphans)

\* The record is deleted; the messages that are still there stay.
DeleteStale(o) ==
    /\ op[o].pc = "stale"
    /\ UNCHANGED <<world, bounds>>
    /\ Finish(o)
    /\ (Fine /\ row' = NoRow) \/ (Mishap /\ UNCHANGED row)
    /\ Leaves(Orphans)
-----------------------------------------------------------------------------
(* deleteNavigation                                                        *)

\* The messages and the marker are deleted side by side; a failure is ignored.
DeleteMessages(o) ==
    LET nav == op[o].existing
    IN  /\ op[o].pc = "delete"
        /\ UNCHANGED <<world, row, bounds>>
        /\ Goto(o, "drop")
        /\ \/ /\ Fine
              /\ \E places \in FoundAt :
                    Become(Without(live, RowIDs(nav), nav.chan),
                           markers \ EndMarker({nav.latest}, nav.chan, places), {})
           \/ /\ Mishap
              /\ \E kept \in RowIDs(nav) :
                    Become(Without(live, RowIDs(nav) \ {kept}, nav.chan),
                           markers \ EndMarker({nav.latest} \ {kept}, nav.chan, {"next"}), {kept})

DeleteRow(o) ==
    /\ op[o].pc = "drop"
    /\ UNCHANGED <<world, bounds>>
    /\ Finish(o)
    /\ \/ /\ Fine
          /\ row' = NoRow
          /\ Leaves(IF row = op[o].existing THEN {} ELSE Orphans)
       \/ /\ Mishap
          /\ UNCHANGED row
          /\ LeavesNone
-----------------------------------------------------------------------------
(* Others on Discord, the scans, and the end of the process                *)

ChannelChanges(c) ==
    /\ ~ Gone(c)
    /\ Mishap
    /\ UNCHANGED <<works, row, op, bounds>>
    /\ \E state \in {"open", "idle", "gone"} \ {channel[c]} :
          /\ channel' = [channel EXCEPT ![c] = state]
          /\ IF state = "gone" THEN Become({m \in live : m[2] # c}, {m \in markers : m[2] # c}, {})
                               ELSE LeavesNone

MessageDeleted(m) ==
    /\ Mishap
    /\ UNCHANGED <<world, row, op, bounds>>
    /\ Become(live \ {m}, markers, {})

\* Also by another slot, which finds it right after its own latest works.
MarkerDeleted(m) ==
    /\ Mishap
    /\ UNCHANGED <<world, row, op, bounds>>
    /\ Become(live, markers \ {m}, {})

WorksChange ==
    /\ Mishap
    /\ works' \in (0..MaxWorks) \ {works}
    /\ UNCHANGED <<channel, discord, row, op, bounds>>

Crash ==
    /\ Mishap
    /\ op' = [o \in Operations |-> Off]
    /\ UNCHANGED <<world, row, bounds>>
    /\ Leaves(Orphans)

Step(o) ==
    \/ ReadExisting(o)
    \/ DeleteMarker(o)
    \/ SendWorks(o)
    \/ DeleteExcess(o)
    \/ SendTop(o)
    \/ SendLatest(o)
    \/ SendMarker(o)
    \/ SaveNavigation(o)
    \/ DeleteStale(o)
    \/ DeleteMessages(o)
    \/ DeleteRow(o)

\* What the process does on its own.
Run ==
    \/ DayPasses
    \/ UpdateAllNavigations
    \/ UpdateNavigationScheduled
    \/ \E o \in Operations : Step(o)

Next ==
    \/ \E o \in Commands, mode \in Mode, c \in Channels : CreateOrReplaceNavigation(o, mode, c)
    \/ \E o \in Commands : RefreshNavigation(o) \/ BeginDelete(o)
    \/ Run
    \/ \E c \in Channels : ChannelChanges(c)
    \/ \E m \in live : MessageDeleted(m)
    \/ \E m \in markers : MarkerDeleted(m)
    \/ WorksChange
    \/ Crash

Spec == Init /\ [][Next]_vars

\* The process goes on, in any order, and the nights come.
FairSpec == Spec /\ WF_vars(Run)
-----------------------------------------------------------------------------
\* Every message of a navigation, end markers included, is known to the row or to an
\* operation at work on it, however the number of works, the mode and the channel
\* change from one update to the next: only a failed call, the end of the process, a
\* stale record, two operations that overlap, and for an end marker a message that came
\* between it and the latest works, leave a message behind.
NoMessageLeftBehind == Messages \subseteq Known

Broken(r) == \E id \in RowIDs(r) : ~ Has(id, r.chan)

\* A row goes by a command, or because a message of it is missing where it should be,
\* never because a call failed.  Where another operation has replaced the row, or the
\* update has turned to the fallback channel, the code cannot tell the difference.
RowsGoForAReason ==
    [][ row # NoRow /\ row' = NoRow =>
          \E o \in Operations :
             \/ op[o].pc = "drop"
             \/ /\ op[o].pc = "stale"
                /\ Broken(row) \/ row # op[o].existing \/ op[o].target # row.chan ]_vars

\* A row with a missing message is repaired or deleted in the end, by the nightly
\* updates alone, as long as its channel is in use and the member has works.
BrokenRowsHeal ==
    row # NoRow /\ Broken(row)
        ~> row = NoRow \/ ~ Broken(row) \/ channel[row.chan] # "open" \/ works = 0
=============================================================================
