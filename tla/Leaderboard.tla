----------------------------- MODULE Leaderboard -----------------------------
(***************************************************************************)
(* The leaderboards (handlers/leaderboard/handler.go, the scheduler's      *)
(* updateLeaderboard, utils/file_utils.go).  A board is a message whose    *)
(* carousel is turned every ten minutes; leaderboard_state.json holds the  *)
(* message and the page of every board.  Each worker of an update and each *)
(* command reads the whole file, changes its own board's entry and writes  *)
(* the whole file back, without a lock.                                    *)
(***************************************************************************)
EXTENDS Naturals, FiniteSets

CONSTANTS
    Guilds,         \* guilds with a board of their own; there is also the global board
    Shows,          \* goroutines of the command that shows a board
    Pages,          \* bound: pages of the carousel, which stay as many
    MaxMessages,    \* bound: messages of a board
    MaxShows,       \* bound: commands
    MaxBoardFaults  \* bound: failed calls and file accesses, deletions, ends of the process

ASSUME PagesAssumption == Pages \in Nat \ {0}
ASSUME BoardNamesAssumption ==
    /\ {"global", "extra"} \cap (Guilds \cup Shows) = {}
    /\ Guilds \cap Shows = {}
ASSUME BoardBoundAssumption ==
    MaxMessages \in Nat \ {0} /\ MaxShows \in Nat /\ MaxBoardFaults \in Nat

VARIABLES
    boardFile,      \* leaderboard_state.json
    display,        \* display[b][m]: the page that message m of board b shows in Discord
    boardTask,      \* boardTask[w]: locals of a worker or a command
    shows,          \* commands so far
    boardFaults,
    mixed           \* history: a command overlapped another task, or failed after its edit

boardVars == <<boardFile, display, boardTask, shows, boardFaults, mixed>>
-----------------------------------------------------------------------------
Global == "global"
Boards == Guilds \cup {Global}

\* updateLeaderboard starts a worker for the global board and one for each board in the
\* file, which the global one is again.
Extra == "extra"
Updaters == Boards \cup {Extra}
BoardTasks == Updaters \cup Shows

Page == 0..Pages - 1
MessageID == 1..MaxMessages
BoardEntry == [message : MessageID, page : Page]      \* LeaderboardState
NoEntry == [message |-> 0]
States == [Boards -> BoardEntry \cup {NoEntry}]
NoStates == [b \in Boards |-> NoEntry]

\* What display holds for a message that was not sent yet, or is gone.
Unsent == Pages
Deleted == Pages + 1
There(b, m) == display[b][m] \in Page

\* No file yet, or one that is being written, reads as no states; a torn one is no JSON.
Written(states) == [torn |-> FALSE, states |-> states]
Blank == Written(NoStates)
Torn == [torn |-> TRUE, states |-> NoStates]

NoWork == [pc |-> "none"]
Work == [ pc     : {"load", "edit", "send", "open", "write"},
          board  : Boards,
          states : States,
          entry  : BoardEntry \cup {NoEntry} ]

BoardTypeOK ==
    /\ boardFile \in {Written(states) : states \in States} \cup {Torn}
    /\ display \in [Boards -> [MessageID -> Page \cup {Unsent, Deleted}]]
    /\ boardTask \in [BoardTasks -> Work \cup {NoWork}]
    /\ shows \in 0..MaxShows
    /\ boardFaults \in 0..MaxBoardFaults
    /\ mixed \in BOOLEAN

BoardInit ==
    /\ boardFile \in {Blank, Written([b \in Boards |-> [message |-> 1, page |-> 0]])}
    /\ display = [b \in Boards |-> [m \in MessageID |->
                    IF m = boardFile.states[b].message THEN 0 ELSE Unsent]]
    /\ boardTask = [w \in BoardTasks |-> NoWork]
    /\ shows = 0
    /\ boardFaults = 0
    /\ mixed = FALSE
-----------------------------------------------------------------------------
Running(w) == boardTask[w] # NoWork
BoardFault == boardFaults < MaxBoardFaults /\ boardFaults' = boardFaults + 1
NoBoardFault == UNCHANGED boardFaults

\* LoadLeaderboardState: no file or an empty one is an empty map; what is not JSON is an
\* error and an empty map.
Loaded == boardFile.states

NewWork(b) == [pc |-> "load", board |-> b, states |-> NoStates, entry |-> NoEntry]
ContinueWork(w, work) == boardTask' = [boardTask EXCEPT ![w] = work]
EndWork(w) == ContinueWork(w, NoWork)

\* A command that ends after its edit leaves the page in Discord and that in the file apart.
Parting(w) == mixed' = (mixed \/ w \in Shows)

TurnPage(p) == (p + 1) % Pages
-----------------------------------------------------------------------------
(* The update of all boards                                                *)

NotWaited == TRUE

\* wg.Wait: the next update starts after all workers of the last.
AllUpdated == \A w \in Updaters : ~Running(w)

\* The workers of an update: the global board's own, and one for each board of the file.
Woken == {Extra} \cup {b \in Boards : Loaded[b] # NoEntry}
OwnBoard(w) == IF w = Extra THEN Global ELSE w

UpdateLeaderboards ==
    /\ AllUpdated
    /\ ~boardFile.torn
    /\ boardTask' = [w \in BoardTasks |->
                        IF w \in Woken /\ ~Running(w) THEN NewWork(OwnBoard(w)) ELSE boardTask[w]]
    /\ mixed' = (mixed \/ \E c \in Shows : Running(c))
    /\ UNCHANGED <<boardFile, display, shows, boardFaults>>

\* An error or a missing entry ends the worker; otherwise it prepares the next page.
LoadForUpdate(w) ==
    /\ w \in Updaters
    /\ boardTask[w].pc = "load"
    /\ LET entry == Loaded[boardTask[w].board]
       IN  IF entry = NoEntry THEN EndWork(w)
           ELSE ContinueWork(w, [boardTask[w] EXCEPT !.pc = "edit", !.states = Loaded,
                                     !.entry = [entry EXCEPT !.page = TurnPage(@)]])
    /\ UNCHANGED <<boardFile, display, shows, boardFaults, mixed>>

\* The embeds cannot be built, the message is gone, or the call fails, having turned the
\* page or not: the worker ends, and the file keeps the old page.
TurnBoard(w) ==
    /\ w \in Updaters
    /\ boardTask[w].pc = "edit"
    /\ LET b == boardTask[w].board
           e == boardTask[w].entry
           turned == [display EXCEPT ![b][e.message] = e.page]
       IN  \/ /\ There(b, e.message)
              /\ display' = turned
              /\ ContinueWork(w, [boardTask[w] EXCEPT !.pc = "open"])
              /\ NoBoardFault
           \/ /\ ~There(b, e.message)
              /\ EndWork(w)
              /\ UNCHANGED <<display, boardFaults>>
           \/ /\ There(b, e.message)
              /\ display' \in {display, turned}
              /\ EndWork(w)
              /\ BoardFault
    /\ UNCHANGED <<boardFile, shows, mixed>>
-----------------------------------------------------------------------------
(* HandleNewCardsInteraction                                               *)

ShowLeaderboard(c, b) ==
    /\ c \in Shows
    /\ ~Running(c)
    /\ shows < MaxShows
    /\ shows' = shows + 1
    /\ ContinueWork(c, NewWork(b))
    /\ mixed' = (mixed \/ \E w \in BoardTasks : Running(w))
    /\ UNCHANGED <<boardFile, display, boardFaults>>

\* The error of LoadLeaderboardState is ignored.
LoadForShow(c) ==
    /\ c \in Shows
    /\ boardTask[c].pc = "load"
    /\ LET entry == Loaded[boardTask[c].board]
       IN  ContinueWork(c, [boardTask[c] EXCEPT !.pc = IF entry = NoEntry THEN "send" ELSE "edit",
                                                !.states = Loaded, !.entry = entry])
    /\ UNCHANGED <<boardFile, display, shows, boardFaults, mixed>>

\* An edit that fails, whatever it did, is followed by a new message.
EditBoard(c) ==
    /\ c \in Shows
    /\ boardTask[c].pc = "edit"
    /\ LET b == boardTask[c].board
           m == boardTask[c].entry.message
           there == There(b, m)
       IN  \/ /\ there
              /\ display' = [display EXCEPT ![b][m] = 0]
              /\ ContinueWork(c, [boardTask[c] EXCEPT !.pc = "open", !.entry.page = 0])
              /\ NoBoardFault
           \/ /\ UNCHANGED display
              /\ ContinueWork(c, [boardTask[c] EXCEPT !.pc = "send"])
              /\ IF there THEN BoardFault ELSE NoBoardFault
    /\ UNCHANGED <<boardFile, shows, mixed>>

SendBoard(c) ==
    /\ boardTask[c].pc = "send"
    /\ LET b == boardTask[c].board
       IN  \/ \E new \in MessageID :
                 /\ display[b][new] = Unsent
                 /\ \A m \in 1..new - 1 : display[b][m] # Unsent
                 /\ display' = [display EXCEPT ![b][new] = 0]
                 /\ ContinueWork(c, [boardTask[c] EXCEPT !.pc = "open",
                                         !.entry = [message |-> new, page |-> 0]])
                 /\ NoBoardFault
           \/ /\ UNCHANGED display
              /\ EndWork(c)
              /\ BoardFault
    /\ UNCHANGED <<boardFile, shows, mixed>>
-----------------------------------------------------------------------------
(* SaveLeaderboardState, of workers and commands                           *)

\* os.WriteFile empties the file ...
OpenStates(w) ==
    /\ boardTask[w].pc = "open"
    /\ \/ /\ boardFile' = Blank
          /\ ContinueWork(w, [boardTask[w] EXCEPT !.pc = "write"])
          /\ NoBoardFault
          /\ UNCHANGED mixed
       \/ /\ UNCHANGED boardFile
          /\ EndWork(w)
          /\ BoardFault
          /\ Parting(w)
    /\ UNCHANGED <<display, shows>>

\* ... and writes it.  Where another has written since, the longer of both texts may show
\* behind the shorter one.
WriteStates(w) ==
    /\ boardTask[w].pc = "write"
    /\ LET written == Written([boardTask[w].states EXCEPT ![boardTask[w].board] = boardTask[w].entry])
       IN  \/ boardFile' = written /\ NoBoardFault /\ UNCHANGED mixed
           \/ boardFile \notin {Blank, written} /\ boardFile' = Torn /\ NoBoardFault /\ UNCHANGED mixed
           \/ boardFile' = Torn /\ BoardFault /\ Parting(w)
    /\ EndWork(w)
    /\ UNCHANGED <<display, shows>>
-----------------------------------------------------------------------------
MessageDeleted ==
    /\ BoardFault
    /\ \E b \in Boards, m \in MessageID :
          There(b, m) /\ display' = [display EXCEPT ![b][m] = Deleted]
    /\ UNCHANGED <<boardFile, boardTask, shows, mixed>>

BoardRestart ==
    /\ BoardFault
    /\ boardTask' = [w \in BoardTasks |-> NoWork]
    /\ boardFile' \in {boardFile} \cup {Torn : w \in {o \in BoardTasks : boardTask[o].pc = "write"}}
    /\ mixed' = (mixed \/ \E c \in Shows : Running(c))
    /\ UNCHANGED <<display, shows>>

\* Bound: a behaviour is followed up to its first overlap with a command, after which the
\* pages have no order to keep.
BoardNext ==
    /\ ~mixed
    /\ \/ UpdateLeaderboards
       \/ \E w \in BoardTasks : LoadForUpdate(w) \/ TurnBoard(w) \/ OpenStates(w) \/ WriteStates(w)
       \/ \E c \in Shows : LoadForShow(c) \/ EditBoard(c) \/ SendBoard(c)
       \/ \E c \in Shows, b \in Boards : ShowLeaderboard(c, b)
       \/ MessageDeleted
       \/ BoardRestart

BoardSpec == BoardInit /\ [][BoardNext]_boardVars
-----------------------------------------------------------------------------
(* Properties                                                              *)

\* The carousel of a guild shows its pages in order: an update shows the page after the one
\* a message shows, or that page again when a worker's stale map, a failed call or an end of
\* the process kept the last turn out of the file, but it never skips a page and never goes
\* back, unless a command ran at the same time.  The global board, which two workers of an
\* update turn, is outside (UpdateLeaderboard, updateLeaderboard).
PagesInOrder == [][
    ~mixed => \A g \in Guilds, m \in MessageID : There(g, m) /\ display'[g][m] # Deleted =>
        \/ display'[g][m] \in {display[g][m], TurnPage(display[g][m])}
        \/ \E c \in Shows : boardTask[c].pc = "edit" /\ boardTask'[c].pc = "open" /\ display'[g][m] = 0 ]_boardVars
=============================================================================
