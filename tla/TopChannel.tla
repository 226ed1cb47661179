----------------------------- MODULE TopChannel -----------------------------
(***************************************************************************)
(* A top channel (handlers/top_channel_handler.go, scanner/                *)
(* channel_cleaner.go): messages without a link are deleted, a link that   *)
(* names no message is replaced by one that does, and every five minutes   *)
(* the oldest messages beyond a limit are deleted.  The handler reads the  *)
(* configuration as it is; the cleaner keeps the one it was started with.  *)
(* A cleaning does not wait for the last one, and members and moderators   *)
(* delete messages at any time.                                            *)
(***************************************************************************)
EXTENDS Naturals, FiniteSets

CONSTANTS
    Cleanings,          \* goroutines of cleanSingleChannel
    Limits,             \* message limits that administrators choose
    CleanerWindow,      \* messages a fetch returns: 100
    MaxTopMessages,     \* bound: messages ever sent to the channel
    MaxTopEvents,       \* bound: events that wait at once
    MaxRegistrations,   \* bound: commands
    MaxTopFaults        \* bound: failed calls, failed reloads, ends of the process

ASSUME LimitsAssumption == Limits \subseteq Nat /\ CleanerWindow \in Nat
ASSUME TopBoundAssumption ==
    MaxTopMessages \in Nat /\ MaxTopEvents \in Nat /\ MaxRegistrations \in Nat /\ MaxTopFaults \in Nat

VARIABLES
    topRow,         \* the channel's row of top_channels
    topMemory,      \* what Bot.GetConfig has of it
    cleanerConfig,  \* what StartChannelCleaner was given of it
    sent,           \* messages sent so far; they are numbered as they are sent
    topChannel,     \* the messages in the channel
    agedUpTo,       \* messages up to this one are older than 14 days
    topEvents,      \* MessageCreate events with what the message says, and corrections to be sent
    cleaning,       \* cleaning[c]: messagesToDelete of a goroutine at its bulk delete; empty otherwise
    removed,        \* history: messages that others than cleanings deleted since a cleaning waits
    registrations,
    topFaults

topVars == <<topRow, topMemory, cleanerConfig, sent, topChannel, agedUpTo, topEvents,
             cleaning, removed, registrations, topFaults>>
-----------------------------------------------------------------------------
TopMessage == 1..MaxTopMessages

\* A message has no link, one that names no message, or one that does.
TopContent == {"talk", "channel link", "message link"}

TopChannelConfig == [limit : Limits, excluded : SUBSET TopMessage]
NoTopChannel == [excluded |-> {}]

TopTypeOK ==
    /\ {topRow, topMemory, cleanerConfig} \subseteq TopChannelConfig \cup {NoTopChannel}
    /\ sent \in 0..MaxTopMessages
    /\ topChannel \cup removed \subseteq 1..sent
    /\ agedUpTo \in 0..sent
    /\ topEvents \subseteq (1..sent) \X (TopContent \cup {"to correct"})
    /\ cleaning \in [Cleanings -> SUBSET TopMessage]
    /\ registrations \in 0..MaxRegistrations
    /\ topFaults \in 0..MaxTopFaults

\* The process starts with a channel that is registered or not.
TopInit ==
    /\ topRow \in {NoTopChannel} \cup [limit : Limits, excluded : {{}}]
    /\ topMemory = topRow
    /\ cleanerConfig = topRow
    /\ sent = 0
    /\ topChannel = {}
    /\ agedUpTo = 0
    /\ topEvents = {}
    /\ cleaning = [c \in Cleanings |-> {}]
    /\ removed = {}
    /\ registrations = 0
    /\ topFaults = 0
-----------------------------------------------------------------------------
TopFault == topFaults < MaxTopFaults /\ topFaults' = topFaults + 1
NoTopFault == UNCHANGED topFaults

Oldest(n, S) == {m \in S : Cardinality({k \in S : k < m}) < n}
Newest(n, S) == {m \in S : Cardinality({k \in S : k > m}) < n}

SendTopMessage ==
    /\ sent < MaxTopMessages
    /\ sent' = sent + 1
    /\ topChannel' = topChannel \cup {sent'}

SomeCleaningWaits(S) == \E c \in S : cleaning[c] # {}

Remove(m) ==
    /\ topChannel' = topChannel \ {m}
    /\ removed' = IF SomeCleaningWaits(Cleanings) THEN removed \cup ({m} \cap topChannel) ELSE {}

\* ChannelMessageDelete by the handler; an error is logged, and the message may be gone.
Moderate(m) ==
    \/ Remove(m) /\ NoTopFault
    \/ /\ UNCHANGED <<topChannel, removed>>
       /\ TopFault
-----------------------------------------------------------------------------
(* HandleRegisterTopChannel                                                *)

\* The row is saved; a reload that fails leaves memory as it was.  The cleaner hears nothing
\* of either.
RegisterTopChannel(limit, excluded) ==
    /\ registrations < MaxRegistrations
    /\ registrations' = registrations + 1
    /\ topRow' = [limit |-> limit, excluded |-> excluded]
    /\ \/ topMemory' = topRow' /\ NoTopFault
       \/ UNCHANGED topMemory /\ TopFault
    /\ UNCHANGED <<cleanerConfig, sent, topChannel, agedUpTo, topEvents, cleaning, removed>>
-----------------------------------------------------------------------------
(* HandleMessageCreate                                                     *)

MemberPostsInTop(text) ==
    /\ Cardinality(topEvents) < MaxTopEvents
    /\ SendTopMessage
    /\ topEvents' = topEvents \cup {<<sent', text>>}
    /\ UNCHANGED <<topRow, topMemory, cleanerConfig, agedUpTo, cleaning, removed, registrations, topFaults>>

\* Members delete messages of their own, moderators and other bots any.
OthersDelete(m) ==
    /\ m \in topChannel
    /\ Remove(m)
    /\ UNCHANGED <<topRow, topMemory, cleanerConfig, sent, agedUpTo, topEvents, cleaning, registrations, topFaults>>

\* Not a top channel, or nothing to correct.
LeaveMessage(m, text) ==
    /\ <<m, text>> \in topEvents
    /\ topMemory = NoTopChannel \/ text = "message link"
    /\ topEvents' = topEvents \ {<<m, text>>}
    /\ UNCHANGED <<topRow, topMemory, cleanerConfig, sent, topChannel, agedUpTo, cleaning,
                   removed, registrations, topFaults>>

DeleteTalk(m) ==
    /\ <<m, "talk">> \in topEvents
    /\ topMemory # NoTopChannel
    /\ Moderate(m)
    /\ topEvents' = topEvents \ {<<m, "talk">>}
    /\ UNCHANGED <<topRow, topMemory, cleanerConfig, sent, agedUpTo, cleaning, registrations>>

\* The original is deleted first; the correction is sent whether or not that worked.
DeleteOriginal(m) ==
    /\ <<m, "channel link">> \in topEvents
    /\ topMemory # NoTopChannel
    /\ Moderate(m)
    /\ topEvents' = (topEvents \ {<<m, "channel link">>}) \cup {<<m, "to correct">>}
    /\ UNCHANGED <<topRow, topMemory, cleanerConfig, sent, agedUpTo, cleaning, registrations>>

\* The bot's own message is ignored by HandleMessageCreate.
SendCorrection(m) ==
    /\ <<m, "to correct">> \in topEvents
    /\ topEvents' = topEvents \ {<<m, "to correct">>}
    /\ \/ SendTopMessage /\ NoTopFault
       \/ UNCHANGED <<sent, topChannel>> /\ TopFault
    /\ UNCHANGED <<topRow, topMemory, cleanerConfig, agedUpTo, cleaning, removed, registrations>>
-----------------------------------------------------------------------------
(* The channel cleaner                                                     *)

TooFewDeleted(count, limit) == count - limit - 1

TooManyDeleted(count, limit) == count - limit + 2

\* The loop stops when fewer than limit messages would be left.
ToDelete(count, limit) == count - limit + 1

\* The oldest messages of those fetched that are not excluded; excluded ones count for the
\* limit.
Doomed(fetched) ==
    IF Cardinality(fetched) <= cleanerConfig.limit THEN {}
    ELSE Oldest(ToDelete(Cardinality(fetched), cleanerConfig.limit), fetched \ cleanerConfig.excluded)

\* A tick starts a goroutine, which reads the messages first.  An error or too few of them,
\* and it is done.
FetchTopMessages(c) ==
    /\ cleaning[c] = {}
    /\ cleanerConfig # NoTopChannel
    /\ \/ cleaning' = [cleaning EXCEPT ![c] = Doomed(Newest(CleanerWindow, topChannel))] /\ NoTopFault
       \/ UNCHANGED cleaning /\ TopFault
    /\ UNCHANGED <<topRow, topMemory, cleanerConfig, sent, topChannel, agedUpTo, topEvents,
                   removed, registrations>>

\* ChannelMessagesBulkDelete: Discord refuses the whole call if one of several messages is
\* too old; a single message is deleted by a call of its own.
Refused(doomed) == Cardinality(doomed) > 1 /\ \E m \in doomed : m <= agedUpTo

BulkDelete(c) ==
    /\ cleaning[c] # {}
    /\ cleaning' = [cleaning EXCEPT ![c] = {}]
    /\ removed' = IF SomeCleaningWaits(Cleanings \ {c}) THEN removed ELSE {}
    /\ \/ /\ topChannel' = IF Refused(cleaning[c]) THEN topChannel ELSE topChannel \ cleaning[c]
          /\ NoTopFault
       \/ UNCHANGED topChannel /\ TopFault
    /\ UNCHANGED <<topRow, topMemory, cleanerConfig, sent, agedUpTo, topEvents, registrations>>
-----------------------------------------------------------------------------
\* Fourteen days without a message, in which handlers and cleanings come to their end.
FourteenDaysPass ==
    /\ agedUpTo < sent
    /\ topEvents = {}
    /\ \A c \in Cleanings : cleaning[c] = {}
    /\ agedUpTo' = sent
    /\ UNCHANGED <<topRow, topMemory, cleanerConfig, sent, topChannel, topEvents, cleaning,
                   removed, registrations, topFaults>>

TopRestart ==
    /\ TopFault
    /\ topMemory' = topRow
    /\ cleanerConfig' = topRow
    /\ topEvents' = {}
    /\ cleaning' = [c \in Cleanings |-> {}]
    /\ removed' = {}
    /\ UNCHANGED <<topRow, sent, topChannel, agedUpTo, registrations>>

CleanerStep(c) == FetchTopMessages(c) \/ BulkDelete(c)

TopNext ==
    \/ \E limit \in Limits, excluded \in {{}} \cup {{m} : m \in topChannel} : RegisterTopChannel(limit, excluded)
    \/ \E text \in TopContent : MemberPostsInTop(text)
    \/ \E m \in TopMessage :
          \/ \E text \in TopContent : LeaveMessage(m, text)
          \/ DeleteTalk(m) \/ DeleteOriginal(m) \/ SendCorrection(m)
          \/ OthersDelete(m)
    \/ \E c \in Cleanings : CleanerStep(c)
    \/ FourteenDaysPass
    \/ TopRestart

\* The ticker ticks and calls return.
TopFairness == \A c \in Cleanings : WF_topVars(CleanerStep(c) /\ NoTopFault)

TopSpec == TopInit /\ [][TopNext]_topVars /\ TopFairness
-----------------------------------------------------------------------------
(* Properties                                                              *)

\* A message that a cleaning takes away has as many messages as the limit but one that are
\* newer or excluded, counting those that members, moderators and the handler have deleted
\* while cleanings waited, but none that another cleaning has.
CleaningLeavesEnough ==
    \A c \in Cleanings, m \in topChannel \ topChannel' :
        cleaning[c] # {} /\ cleaning'[c] = {} =>
            Cardinality({k \in topChannel' \cup removed : k > m \/ k \in cleanerConfig.excluded})
                >= cleanerConfig.limit - 1

\* However many cleanings work on old lists of messages while others post and delete, together
\* they take no message that is one of the newest, as many as the limit the cleaner was started
\* with but one, among those that the others have left or deleted since a list was made
\* (cleanSingleChannel).  What others delete between its fetch and its bulk delete, a cleaning
\* does not make up for: then fewer messages stay, and it may be none.
CleaningsSpareTheNewest == [][CleaningLeavesEnough]_topVars

\* The messages that a fetch returns are no more than the limit, or all are excluded, or the
\* call that would delete the others is refused for an old one.
Tidy ==
    LET fetched == Newest(CleanerWindow, topChannel)
    IN  cleanerConfig # NoTopChannel =>
            \/ Cardinality(fetched) <= cleanerConfig.limit
            \/ fetched \subseteq cleanerConfig.excluded
            \/ Refused(Doomed(fetched))

\* When the channel falls silent, the cleaner brings it to the limit it was started with and
\* keeps it there (cleanSingleChannel).
LimitIsKept == <>[]Tidy
=============================================================================
