-------------------------- MODULE PunishmentHistory --------------------------
(***************************************************************************)
(* Reading the punishments of a member page by page, while records are     *)
(* added and deleted: GetPunishHistory (grpc/server/punish_server.go),     *)
(* which a service calls with a page number, and /punish_search            *)
(* (handlers/punish/admin/search.go), whose buttons carry it.              *)
(***************************************************************************)
EXTENDS Naturals, FiniteSets

CONSTANTS
    HistoryGuilds,      \* guilds the member is punished in
    Readers,            \* callers of GetPunishHistory and users of the search
    DefaultPageSize,    \* 10
    MaxPageSize,        \* 100
    SearchPageSize,     \* recordsPerPageV2: 5
    MaxRecords          \* bound: punishments

ASSUME PageSizeAssumption == {DefaultPageSize, MaxPageSize, SearchPageSize} \subseteq Nat \ {0}
ASSUME RecordBoundAssumption == MaxRecords \in Nat

VARIABLES
    punishments,    \* the member's rows
    lastID,
    reader          \* reader[r]: what a reader asks for, has seen, and is due to see

historyVars == <<punishments, lastID, reader>>
-----------------------------------------------------------------------------
RecordID == 1..MaxRecords
Row == [id : RecordID, guild : HistoryGuilds]
IDs(rows) == {row.id : row \in rows}

\* A search asks for every guild, the service for one.  size is PageSize, page the page to be
\* asked for next.
NoReader == [pc |-> "none"]
Reader == [ pc     : {"history", "search", "done"},
            guilds : SUBSET HistoryGuilds,
            size   : 1..MaxPageSize \cup {DefaultPageSize, SearchPageSize},
            page   : 1..MaxRecords + 1,
            seen   : SUBSET RecordID,
            due    : SUBSET RecordID ]

HistoryTypeOK ==
    /\ lastID \in 0..MaxRecords
    /\ punishments \subseteq Row
    /\ IDs(punishments) \subseteq 1..lastID
    /\ reader \in [Readers -> Reader \cup {NoReader}]

HistoryInit ==
    /\ punishments = {}
    /\ lastID = 0
    /\ reader = [r \in Readers |-> NoReader]
-----------------------------------------------------------------------------
Smaller(m, n) == IF m < n THEN m ELSE n

\* The rows that a reader asks for, by their keys.  The query has no ORDER BY: they come in
\* the order of their keys.
Asked(guilds) == IDs({row \in punishments : row.guild \in guilds})
Found(r) == Asked(reader[r].guilds)

\* Requests without a size get the default, and those above the maximum the maximum.
Size(asked) == IF asked = 0 THEN DefaultPageSize ELSE Smaller(asked, MaxPageSize)

\* The place of a key among others, counted from 1.
Place(k, ids) == Cardinality({j \in ids : j <= k})

TotalPages(ids, size) == (Cardinality(ids) + size - 1) \div size

PageButOne(ids, page, size) ==
    {k \in ids : (page - 1) * size < Place(k, ids) /\ Place(k, ids) < page * size}

PageOf(ids, page, size) ==
    {k \in ids : (page - 1) * size < Place(k, ids) /\ Place(k, ids) <= page * size}
-----------------------------------------------------------------------------
AddPunishment ==
    /\ lastID < MaxRecords
    /\ lastID' = lastID + 1
    /\ \E g \in HistoryGuilds : punishments' = punishments \cup {[id |-> lastID + 1, guild |-> g]}
    /\ UNCHANGED reader

\* The rows after the one that goes move up, across the page that a reader of the guild is at:
\* they are no longer due.
DeletePunishment ==
    /\ \E row \in punishments :
          /\ punishments' = punishments \ {row}
          /\ reader' = [r \in Readers |->
                 IF reader[r] = NoReader \/ row.guild \notin reader[r].guilds THEN reader[r]
                 ELSE [reader[r] EXCEPT !.due = {k \in @ : k < row.id}]]
    /\ UNCHANGED lastID

StartReading(r, pc, guilds, size) ==
    /\ reader[r] = NoReader
    /\ reader' = [reader EXCEPT ![r] =
           [ pc |-> pc, guilds |-> guilds, size |-> size, page |-> 1, seen |-> {},
             due |-> Asked(guilds) ]]
    /\ UNCHANGED <<punishments, lastID>>

AskForHistory(r) ==
    \E g \in HistoryGuilds, asked \in 0..MaxPageSize + 1 : StartReading(r, "history", {g}, Size(asked))

HandlePunishSearchCommand(r) == StartReading(r, "search", HistoryGuilds, SearchPageSize)

\* The caller goes on with the next page while there is one.
ShowPage(r, page) ==
    LET size == reader[r].size
    IN  reader' = [reader EXCEPT ![r].seen = @ \cup PageOf(Found(r), page, size),
                                 ![r].page = page + 1,
                                 ![r].pc = IF page >= TotalPages(Found(r), size) THEN "done" ELSE @]

CloseReader(r) == reader' = [reader EXCEPT ![r].pc = "done"]

\* GetPunishHistory: a page out of range is empty.
GetPunishHistory(r) ==
    /\ reader[r].pc = "history"
    /\ IF (reader[r].page - 1) * reader[r].size >= Cardinality(Found(r)) THEN CloseReader(r)
       ELSE ShowPage(r, reader[r].page)
    /\ UNCHANGED <<punishments, lastID>>

\* displayPunishmentsV2: a page out of range is the last one.  Without rows there is no page,
\* and on the last page the button is disabled.
DisplayPunishments(r) ==
    /\ reader[r].pc = "search"
    /\ IF Found(r) = {} THEN CloseReader(r)
       ELSE ShowPage(r, Smaller(reader[r].page, TotalPages(Found(r), reader[r].size)))
    /\ UNCHANGED <<punishments, lastID>>

\* The reader starts anew.
EndReading(r) ==
    /\ reader[r].pc = "done"
    /\ reader' = [reader EXCEPT ![r] = NoReader]
    /\ UNCHANGED <<punishments, lastID>>

HistoryNext ==
    \/ AddPunishment
    \/ DeletePunishment
    \/ \E r \in Readers :
          \/ AskForHistory(r)
          \/ HandlePunishSearchCommand(r)
          \/ GetPunishHistory(r)
          \/ DisplayPunishments(r)
          \/ EndReading(r)

HistorySpec == HistoryInit /\ [][HistoryNext]_historyVars
-----------------------------------------------------------------------------
(* Properties                                                              *)

\* Whoever turns the pages to the last one has seen every record there was when they began,
\* though records are added in between, and though some are deleted, but for those behind a
\* deleted one of a guild they read (GetPunishHistory, displayPunishmentsV2).
EveryRecordIsRead == \A r \in Readers : reader[r].pc = "done" => reader[r].due \subseteq reader[r].seen
=============================================================================
